---- MODULE Spec2Model ----
(***************************************************************************)
(* Page cache, pages, inode content I/O and the memory block device of the *)
(* user-space filesystem stack (src/fs).                                   *)
(*                                                                         *)
(* Data is held at the granularity of one cell; a page buffer is PAGE_SIZE *)
(* cells, a sector is sector_size_ cells, and the device is DEV_PAGES      *)
(* pages long.  Unsigned fields that the code can wrap (ref_count_,        *)
(* current_pages_) are kept as integers whose negative values stand for    *)
(* the wrapped value 2^w + x; comparisons on them go through ULess.        *)
(***************************************************************************)
EXTENDS Integers, Sequences, FiniteSets, TLC

\* ------------------------------------------------------------------ bounds
PAGE_SIZE == 2
sector_size_ == 2
WordBits == 4
DEV_PAGES == 2
NumOffsets == 2
MaxVal == 1
MaxAlloc == 3
MaxCalls == 4
MaxCap == 2
FdSize == 2

Threads == {"t1", "t2"}
Callers == {"t1"}
Inodes == {"ino1", "ino2"}
Values == 0..MaxVal
Offsets == {k * PAGE_SIZE : k \in 0..(NumOffsets - 1)}
Keys == [inode : Inodes, offset : Offsets]
DevSize == DEV_PAGES * PAGE_SIZE
NoPage == 0
NoThread == "none"

\* ------------------------------------------------------- unsigned helpers
\* a < b on unsigned words, a negative representative being a wrapped value
ULess(a, b) ==
    IF (a < 0) = (b < 0) THEN a < b ELSE b < 0

Min(a, b) == IF a < b THEN a ELSE b

RemoveAll(s, x) == SelectSeq(s, LAMBDA y : y # x)

ZeroBuf == [j \in 0..(PAGE_SIZE - 1) |-> 0]

\* ------------------------------------------------------------------ Page
\* Page::Page : ref_count_ 1, CLEAN, not in the LRU, zeroed buffer
NewPage(offset, inode) ==
    [offset_ |-> offset, inode_ |-> inode, ref_count_ |-> 1,
     state_ |-> "CLEAN", in_lru_ |-> FALSE, buf |-> ZeroBuf]

get_state(c, p) == c.pg[p].state_
is_dirty(c, p) == c.pg[p].state_ = "DIRTY"
is_uptodate(c, p) == c.pg[p].state_ = "UPTODATE"
ref_count(c, p) == c.pg[p].ref_count_
PageKeyOf(c, p) == [inode |-> c.pg[p].inode_, offset |-> c.pg[p].offset_]

set_state(c, p, s) == [c EXCEPT !.pg[p].state_ = s]

\* PageCache::add_to_dirty_list / remove_from_dirty_list
add_to_dirty_list(c, p) == [c EXCEPT !.dirty_list_ = Append(@, p)]
remove_from_dirty_list(c, p) == [c EXCEPT !.dirty_list_ = RemoveAll(@, p)]

\* Page::lock : waits until the state is not LOCKED, then stores LOCKED
lock_ready(c, p) == c.pg[p].state_ # "LOCKED"

\* a lock() that leaves state_ as it found it
PageLockKeepsState(c, p) == c

PageLock(c, p) == set_state(c, p, "LOCKED")

\* Page::unlock : LOCKED becomes UPTODATE, any other state is left alone
PageUnlock(c, p) ==
    IF c.pg[p].state_ = "LOCKED" THEN set_state(c, p, "UPTODATE") ELSE c

\* Page::mark_dirty
mark_dirty(c, p) ==
    IF c.pg[p].state_ \notin {"DIRTY", "WRITEBACK"}
    THEN add_to_dirty_list(set_state(c, p, "DIRTY"), p)
    ELSE c

\* Page::clear_dirty
clear_dirty(c, p) ==
    IF c.pg[p].state_ = "DIRTY"
    THEN remove_from_dirty_list(set_state(c, p, "UPTODATE"), p)
    ELSE c

\* ---------------------------------------------------- MemoryBlockDevice
\* MemoryBlockDevice::read into page p's buffer; held = whether the caller
\* holds the page-cache mutex.  io_log keeps what the device was asked.
BlockReadOk(sector) == sector * sector_size_ < DevSize

BlockRead(c, sector, p, held) ==
    LET off == sector * sector_size_
        ok == BlockReadOk(sector)
        n == IF ok THEN Min(PAGE_SIZE, DevSize - off) ELSE 0
        ent == [op |-> "read", sector |-> sector, buf |-> p, ok |-> ok,
                held |-> held]
    IN [c EXCEPT !.io_log = Append(@, ent),
                 !.pg[p].buf = [j \in 0..(PAGE_SIZE - 1) |->
                                  IF j < n THEN c.data_[off + j] ELSE @[j]]]

\* MemoryBlockDevice::write of page p's buffer
BlockWriteOk(c, sector) == ~c.readonly_ /\ sector * sector_size_ < DevSize

BlockWrite(c, sector, p, held) ==
    LET off == sector * sector_size_
        ok == BlockWriteOk(c, sector)
        n == IF ok THEN Min(PAGE_SIZE, DevSize - off) ELSE 0
        ent == [op |-> "write", sector |-> sector, buf |-> p, ok |-> ok,
                held |-> held]
    IN [c EXCEPT !.io_log = Append(@, ent),
                 !.data_ = [a \in 0..(DevSize - 1) |->
                              IF a >= off /\ a < off + n
                              THEN c.pg[p].buf[a - off] ELSE @[a]]]

\* offset_t offset = sector * sector_size_: a product of unsigned words,
\* kept modulo Word (the machine word is WordBits bits wide)
Word == 2 ^ WordBits
ByteOffset(sector) == (sector * sector_size_) % Word

\* MemoryBlockDevice::read(sector, buffer, size): the code it returns, the
\* number of bytes it copies and the bytes it puts in the buffer
ReadCode(sector) ==
    IF ByteOffset(sector) >= DevSize THEN "FS_EINVAL" ELSE "SUCCESS"

ReadSize(sector, size) == Min(size, DevSize - ByteOffset(sector))

MemRead(c, sector, size) ==
    IF ReadCode(sector) # "SUCCESS" THEN <<>>
    ELSE [j \in 1..ReadSize(sector, size) |->
            c.data_[ByteOffset(sector) + j - 1]]

\* a write that tests the bounds before the read-only flag
WriteCodeBoundsFirst(c, sector) ==
    IF ByteOffset(sector) >= DevSize THEN "FS_EINVAL"
    ELSE IF c.readonly_ THEN "FS_EROFS" ELSE "SUCCESS"

\* MemoryBlockDevice::write(sector, buffer, size): the code it returns and
\* what it does to data_; bytes is the caller's buffer, size long
WriteCode(c, sector) ==
    IF c.readonly_ THEN "FS_EROFS"
    ELSE IF ByteOffset(sector) >= DevSize THEN "FS_EINVAL" ELSE "SUCCESS"

MemWrite(c, sector, bytes) ==
    IF WriteCode(c, sector) # "SUCCESS" THEN c
    ELSE [c EXCEPT !.data_ =
            [a \in 0..(DevSize - 1) |->
               IF /\ a >= ByteOffset(sector)
                  /\ a < ByteOffset(sector) + ReadSize(sector, Len(bytes))
               THEN bytes[a - ByteOffset(sector) + 1] ELSE @[a]]]

\* MemoryBlockDevice::trim(sector, size)
TrimCode(c, sector) ==
    IF c.readonly_ THEN "FS_EROFS"
    ELSE IF ByteOffset(sector) >= DevSize THEN "FS_EINVAL" ELSE "SUCCESS"

MemTrim(c, sector, size) ==
    IF TrimCode(c, sector) # "SUCCESS" THEN c
    ELSE [c EXCEPT !.data_ =
            [a \in 0..(DevSize - 1) |->
               IF /\ a >= ByteOffset(sector)
                  /\ a < ByteOffset(sector) + ReadSize(sector, size)
               THEN 0 ELSE @[a]]]

\* MemoryBlockDevice::flush
FlushCode == "SUCCESS"

\* struct Bio; id is the rank of its submit_bio call, data the bytes of the
\* buffer a WRITE brings
NoBio == [id |-> 0, type |-> "none", sector |-> 0, size |-> 0, data |-> <<>>]

\* MemoryBlockDevice::process_bio: the code handed to the callback
BioCode(c, bio) ==
    CASE bio.type = "READ" -> ReadCode(bio.sector)
      [] bio.type = "WRITE" -> WriteCode(c, bio.sector)
      [] bio.type = "FLUSH" -> FlushCode
      [] OTHER -> TrimCode(c, bio.sector)

\* MemoryBlockDevice::process_bio: the operation, then the callback
process_bio(c, bio) ==
    [(CASE bio.type = "WRITE" -> MemWrite(c, bio.sector, bio.data)
        [] bio.type = "DISCARD" -> MemTrim(c, bio.sector, bio.size)
        [] OTHER -> c)
     EXCEPT !.callbacks = Append(@, [id |-> bio.id, type |-> bio.type,
                                     sector |-> bio.sector,
                                     code |-> BioCode(c, bio)])]

\* a worker that takes the newest BIO of the queue
PopBack(c) ==
    [c EXCEPT !.io_thread_ = [pc |-> "process",
                             bio |-> c.bio_queue_[Len(c.bio_queue_)]],
              !.bio_queue_ = SubSeq(@, 1, Len(@) - 1)]

\* MemoryBlockDevice::io_thread_func: bio_queue_.front(), pop(), unlock
PopFront(c) ==
    [c EXCEPT !.io_thread_ = [pc |-> "process", bio |-> Head(c.bio_queue_)],
              !.bio_queue_ = Tail(@)]

\* ------------------------------------------------------------- PageCache
\* PageCache::update_lru : move to the head when the page is in the list
update_lru(c, p) ==
    IF c.pg[p].in_lru_
    THEN [c EXCEPT !.lru_list_ = <<p>> \o RemoveAll(@, p)]
    ELSE c

\* PageCache::remove_from_lru
remove_from_lru(c, p) ==
    IF c.pg[p].in_lru_
    THEN [c EXCEPT !.lru_list_ = RemoveAll(@, p), !.pg[p].in_lru_ = FALSE]
    ELSE c

\* PageCache::find_page_locked (and the body of find_page): the page found
\* for the key, or NoPage
Lookup(c, key) == c.pages_[key]

find_page_locked(c, key) ==
    IF c.pages_[key] # NoPage
    THEN [update_lru(c, c.pages_[key]) EXCEPT !.hits_ = @ + 1]
    ELSE [c EXCEPT !.misses_ = @ + 1]

\* PageCache::allocate_page, first half: does the ceiling ask for eviction
NeedsEvict(c) == ~ULess(c.current_pages_, c.max_pages_)

\* PageCache::allocate_page, second half: make the page, index it, push it
\* on the LRU head, count it.  The new page is number Len(c.pg) + 1.
CreatePage(c, key) ==
    LET id == Len(c.pg) + 1
        page == [NewPage(key.offset, key.inode) EXCEPT !.in_lru_ = TRUE]
    IN [c EXCEPT !.pg = Append(@, page),
                 !.pages_[key] = id,
                 !.lru_list_ = <<id>> \o @,
                 !.current_pages_ = @ + 1]

\* PageCache::release_page
release_page(c, p) ==
    IF c.pg[p].ref_count_ # 0
    THEN c
    ELSE LET c1 == [c EXCEPT !.pages_[PageKeyOf(c, p)] = NoPage]
             c2 == remove_from_lru(c1, p)
             c3 == IF is_dirty(c2, p) THEN remove_from_dirty_list(c2, p) ELSE c2
         IN [c3 EXCEPT !.current_pages_ = @ - 1]

\* Page::put, the decrement
PutDec(c, p) == [c EXCEPT !.pg[p].ref_count_ = @ - 1]

\* Page::put as one uninterrupted call
put(c, p) ==
    LET c1 == PutDec(c, p)
    IN IF c1.pg[p].ref_count_ = 0 THEN release_page(c1, p) ELSE c1

\* Page::get
get(c, p) == [c EXCEPT !.pg[p].ref_count_ = @ + 1]

\* PageCache::evict_pages, the test that skips a page
EvictSkips(c, p) == ULess(1, c.pg[p].ref_count_)

\* a loop body that drops a Dirty victim without writing it back
EvictBodyDropsDirty(c) ==
    LET p == c.lru_list_[Len(c.lru_list_)]
    IN IF EvictSkips(c, p)
       THEN [c EXCEPT !.lru_list_ = <<p>> \o SubSeq(@, 1, Len(@) - 1)]
       ELSE [remove_from_lru([c EXCEPT !.pages_[PageKeyOf(c, p)] = NoPage], p)
             EXCEPT !.current_pages_ = @ - 1, !.evictions_ = @ + 1]

\* PageCache::evict_pages, one run of the loop body on a non-empty LRU
\* list: the page at the tail is rotated to the head when it is
\* referenced, otherwise written back if dirty and dropped.
EvictBody(c) ==
    LET p == c.lru_list_[Len(c.lru_list_)]
    IN IF EvictSkips(c, p)
       THEN [c EXCEPT !.lru_list_ = <<p>> \o SubSeq(@, 1, Len(@) - 1)]
       ELSE LET c1 == IF is_dirty(c, p)
                      THEN [clear_dirty(
                               BlockWrite(c, c.pg[p].offset_ \div sector_size_,
                                          p, TRUE), p)
                            EXCEPT !.writebacks_ = @ + 1]
                      ELSE c
                c2 == [c1 EXCEPT !.pages_[PageKeyOf(c, p)] = NoPage]
                c3 == remove_from_lru(c2, p)
            IN [c3 EXCEPT !.current_pages_ = @ - 1,
                          !.evictions_ = @ + 1]

\* did that run of the loop body evict
EvictBodyEvicts(c) == ~EvictSkips(c, c.lru_list_[Len(c.lru_list_)])

\* PageCache::evict_pages, the loop condition
EvictContinues(c, count, evicted) ==
    ULess(evicted, count) /\ c.lru_list_ # <<>>

\* PageCache::read_page once page->lock() has returned: the second
\* is_uptodate() test, the device read into the page, set_state, unlock
ReadLockedOk(c, p) ==
    is_uptodate(c, p) \/ BlockReadOk(c.pg[p].offset_ \div sector_size_)

ReadLocked(c, p) ==
    LET sector == c.pg[p].offset_ \div sector_size_
    IN IF is_uptodate(c, p)
       THEN PageUnlock(c, p)
       ELSE IF ~BlockReadOk(sector)
       THEN PageUnlock(set_state(BlockRead(c, sector, p, FALSE), p, "ERROR"), p)
       ELSE PageUnlock(set_state(BlockRead(c, sector, p, FALSE), p, "UPTODATE"),
                       p)

\* PageCache::invalidate_pages, the loop body for one indexed key
InvalidateKey(c, key) ==
    LET p == c.pages_[key]
        c1 == remove_from_lru(c, p)
        c2 == IF is_dirty(c1, p) THEN remove_from_dirty_list(c1, p) ELSE c1
    IN [c2 EXCEPT !.pages_[key] = NoPage, !.current_pages_ = @ - 1]

RECURSIVE InvalidateSet(_, _)
InvalidateSet(c, ks) ==
    IF ks = {} THEN c
    ELSE LET k == CHOOSE x \in ks : TRUE
         IN InvalidateSet(InvalidateKey(c, k), ks \ {k})

\* PageCache::invalidate_pages
invalidate_pages(c, inode) ==
    InvalidateSet(c, {k \in Keys : k.inode = inode /\ c.pages_[k] # NoPage})

\* PageCache::sync_pages, the snapshot taken under the mutex
SyncSnapshot(c, inode) ==
    SelectSeq(c.dirty_list_,
              LAMBDA p : (inode = "all" \/ c.pg[p].inode_ = inode)
                         /\ c.pg[p].state_ = "DIRTY")

\* PageCache::sync_pages, the loop body for page p once page->lock() has
\* returned; failed tells whether the body returned the write's error
SyncFailed(c, p) ==
    get_state(c, p) = "DIRTY"
    /\ ~BlockWriteOk(c, c.pg[p].offset_ \div sector_size_)

\* a loop body that writes the page out and leaves it Dirty
SyncBodyKeepsDirty(c, p) ==
    [set_state(BlockWrite(c, c.pg[p].offset_ \div sector_size_, p, FALSE),
               p, "DIRTY")
     EXCEPT !.writebacks_ = @ + 1]

SyncBody(c, p) ==
    IF get_state(c, p) # "DIRTY"
    THEN PageUnlock(c, p)
    ELSE LET c1 == set_state(c, p, "WRITEBACK")
             sector == c.pg[p].offset_ \div sector_size_
             c2 == BlockWrite(c1, sector, p, FALSE)
         IN IF BlockWriteOk(c, sector)
            THEN PageUnlock([clear_dirty(c2, p)
                             EXCEPT !.writebacks_ = @ + 1], p)
            ELSE PageUnlock(set_state(c2, p, "ERROR"), p)

\* the Result<void> that sync_pages builds at its last line:
\* Result<void>(ErrorCode) sets is_ok_ to false whatever the code is
ResultFromCode(code) == [is_ok_ |-> FALSE, error_ |-> code]
ResultOk == [is_ok_ |-> TRUE, error_ |-> "unset"]

\* ------------------------------------ calls run from start to return
\* PageCache::evict_pages run to its end by a thread that nobody
\* interrupts.  skips counts the iterations since the last eviction: once
\* it passes the length of the list, the list is back where it was and the
\* loop goes round for ever (hung).
RECURSIVE RunEvict(_, _, _, _)
RunEvict(c, count, evicted, skips) ==
    IF ~EvictContinues(c, count, evicted) THEN [c |-> c, hung |-> FALSE]
    ELSE IF skips > Len(c.lru_list_) THEN [c |-> c, hung |-> TRUE]
    ELSE IF EvictBodyEvicts(c)
    THEN RunEvict(EvictBody(c), count, evicted + 1, 0)
    ELSE RunEvict(EvictBody(c), count, evicted, skips + 1)

\* PageCache::evict_pages(count) as one uninterrupted call
evict_pages(c, count) == RunEvict(c, count, 0, 0)

\* PageCache::allocate_page once the eviction it asked for (e) is over
AllocateAfter(e, key) ==
    IF e.hung
    THEN [c |-> e.c, page |-> NoPage, hung |-> TRUE]
    ELSE [c |-> CreatePage(e.c, key), page |-> Len(e.c.pg) + 1, hung |-> FALSE]

\* PageCache::allocate_page
allocate_page(c, key) ==
    AllocateAfter(IF NeedsEvict(c) THEN evict_pages(c, 1)
                  ELSE [c |-> c, hung |-> FALSE], key)

\* PageCache::find_or_create_page
find_or_create_page(c, key) ==
    IF Lookup(c, key) # NoPage
    THEN [c |-> find_page_locked(c, key), page |-> Lookup(c, key),
          hung |-> FALSE]
    ELSE allocate_page(find_page_locked(c, key), key)

\* PageCache::read_page from page->lock() on
ReadAfterLock(c, p) ==
    [c |-> ReadLocked(c, p), page |-> p, ok |-> ReadLockedOk(c, p),
     hung |-> FALSE]

\* PageCache::read_page once find_or_create_page has returned f; a page
\* found LOCKED would never be unlocked by anybody else, so lock() would
\* not return (hung)
ReadAfterFind(f) ==
    IF f.hung THEN [c |-> f.c, page |-> NoPage, ok |-> FALSE, hung |-> TRUE]
    ELSE IF is_uptodate(f.c, f.page)
    THEN [c |-> f.c, page |-> f.page, ok |-> TRUE, hung |-> FALSE]
    ELSE IF ~lock_ready(f.c, f.page)
    THEN [c |-> f.c, page |-> NoPage, ok |-> FALSE, hung |-> TRUE]
    ELSE ReadAfterLock(PageLock(f.c, f.page), f.page)

\* PageCache::read_page
read_page(c, key) == ReadAfterFind(find_or_create_page(c, key))

\* ----------------------------------------------------------- Inode
PageOffsetOf(x) == (x \div PAGE_SIZE) * PAGE_SIZE
PagePosOf(x) == x % PAGE_SIZE
PageBytesOf(x, left) == Min(left, PAGE_SIZE - PagePosOf(x))

\* Inode::write, the memcpy into the page
CopyIn(c, p, data, pos, bw) ==
    [c EXCEPT !.pg[p].buf =
        [j \in 0..(PAGE_SIZE - 1) |->
           IF /\ j >= PagePosOf(pos + bw)
              /\ j < PagePosOf(pos + bw) + PageBytesOf(pos + bw, Len(data) - bw)
           THEN data[bw + (j - PagePosOf(pos + bw)) + 1] ELSE @[j]]]

\* Inode::write, the loop: data is the caller's buffer, bw bytes_written
RECURSIVE WriteLoop(_, _, _, _, _)

\* one run of the loop body after the partial-page read r (if any)
WriteAfterRead(r, p, inode, pos, data, bw) ==
    IF r.hung THEN [c |-> r.c, ok |-> FALSE, n |-> bw, hung |-> TRUE]
    ELSE IF ~r.ok
    THEN [c |-> put(r.c, p), ok |-> FALSE, n |-> bw, hung |-> FALSE]
    ELSE WriteLoop(put(mark_dirty(CopyIn(r.c, p, data, pos, bw), p), p),
                   inode, pos, data,
                   bw + PageBytesOf(pos + bw, Len(data) - bw))

\* one run of the loop body after find_or_create_page has returned f
WriteAfterFind(f, inode, pos, data, bw) ==
    IF f.hung THEN [c |-> f.c, ok |-> FALSE, n |-> bw, hung |-> TRUE]
    ELSE WriteAfterRead(
            IF /\ \/ PagePosOf(pos + bw) # 0
                  \/ PageBytesOf(pos + bw, Len(data) - bw) # PAGE_SIZE
               /\ ~is_uptodate(f.c, f.page)
            THEN read_page(f.c, [inode |-> inode,
                                 offset |-> PageOffsetOf(pos + bw)])
            ELSE [c |-> f.c, page |-> f.page, ok |-> TRUE, hung |-> FALSE],
            f.page, inode, pos, data, bw)

WriteLoop(c, inode, pos, data, bw) ==
    IF bw >= Len(data)
    THEN [c |-> c, ok |-> TRUE, n |-> bw, hung |-> FALSE]
    ELSE WriteAfterFind(
            find_or_create_page(c, [inode |-> inode,
                                    offset |-> PageOffsetOf(pos + bw)]),
            inode, pos, data, bw)

\* Inode::read, the loop: actual is actual_size, buf what has been copied
\* out so far (bytes_read is its length)
RECURSIVE ReadLoop(_, _, _, _, _)

\* one run of the loop body after read_page has returned r
ReadAfterPage(r, inode, pos, actual, buf) ==
    IF r.hung THEN [c |-> r.c, ok |-> FALSE, bytes |-> buf, hung |-> TRUE]
    ELSE IF ~r.ok
    THEN [c |-> r.c, ok |-> FALSE, bytes |-> buf, hung |-> FALSE]
    ELSE ReadLoop(put(r.c, r.page), inode, pos, actual,
                  buf \o [j \in 1..PageBytesOf(pos + Len(buf), actual - Len(buf))
                            |-> r.c.pg[r.page].buf[
                                   PagePosOf(pos + Len(buf)) + j - 1]])

ReadLoop(c, inode, pos, actual, buf) ==
    IF Len(buf) >= actual
    THEN [c |-> c, ok |-> TRUE, bytes |-> buf, hung |-> FALSE]
    ELSE ReadAfterPage(
            read_page(c, [inode |-> inode,
                          offset |-> PageOffsetOf(pos + Len(buf))]),
            inode, pos, actual, buf)

\* FileAttribute of a regular file: attr_.size, the owner write bit of
\* attr_.mode, whether the type bits of attr_.mode say DIRECTORY, and
\* attr_.mtime and attr_.ctime, each kept as the number of times the code
\* has stored now() in it
FileAttr(size, writable) ==
    [size |-> size, writable |-> writable, is_dir |-> FALSE,
     mtime |-> 0, ctime |-> 0]

\* attr_.mtime = attr_.ctime = std::chrono::system_clock::now()
Touch(a) == [a EXCEPT !.mtime = @ + 1, !.ctime = @ + 1]

\* a mode test that lets every write through
IsWritableAlways(a) == TRUE

\* FileMode::is_writable
is_writable(a) == a.writable

\* an is_dir() that takes every inode for a directory
IsDirAlways(a) == TRUE

\* Inode::is_dir
is_dir(a) == a.is_dir

\* the directory calls of Inode other than rename, and those of them that
\* test the write bit and store the times
DirOps == {"readdir", "lookup", "create", "unlink", "mkdir", "rmdir"}
Mutating == {"create", "unlink", "mkdir", "rmdir"}

\* does the call reach the operation table
DirCallsOps(a, op) == is_dir(a) /\ (op \in Mutating => is_writable(a))

\* the code the call returns; ok tells whether the operation table's
\* function succeeds
DirCode(a, op, ok) ==
    IF ~is_dir(a) THEN "FS_ENOTDIR"
    ELSE IF op \in Mutating /\ ~is_writable(a) THEN "FS_EACCES"
    ELSE IF ok THEN "SUCCESS" ELSE "FS_EIO"

\* Inode::rename: the mutexes it takes, in the order it takes them
LockOrder(c, dir, new_dir) ==
    IF c.ino_[dir] < c.ino_[new_dir] THEN <<dir, new_dir>>
    ELSE IF c.ino_[dir] > c.ino_[new_dir] THEN <<new_dir, dir>>
    ELSE <<dir>>

\* a seek that takes whence 1 for whence 0
SeekPosFromStart(pos, size, offset, whence) ==
    IF whence \in {0, 1} THEN offset
    ELSE IF whence = 2 THEN (size + offset) % Word
    ELSE pos

\* File::seek: the position after the call, in offset_t arithmetic
SeekPos(pos, size, offset, whence) ==
    IF whence = 0 THEN offset
    ELSE IF whence = 1 THEN (pos + offset) % Word
    ELSE IF whence = 2 THEN (size + offset) % Word
    ELSE pos

SeekCode(whence) == IF whence \in {0, 1, 2} THEN "SUCCESS" ELSE "FS_EINVAL"

\* VFS::lookup
LookupCode(c, path) == "FS_EIO"

\* ----------------------------------------------- FileDescriptorTable
\* the indexes of a descriptor table of FdSize slots
Fds == 0..(FdSize - 1)

\* a search that takes the highest empty slot
LastFree(c) ==
    IF \A i \in Fds : c.files_[i] # "none" THEN -1
    ELSE CHOOSE i \in Fds :
           /\ c.files_[i] = "none"
           /\ \A j \in Fds : j > i => c.files_[j] # "none"

\* the loop of alloc_fd and dup_fd: the first index whose slot is empty,
\* or -1 when the loop runs to the end of the table
FirstFree(c) ==
    IF \A i \in Fds : c.files_[i] # "none" THEN -1
    ELSE CHOOSE i \in Fds :
           /\ c.files_[i] = "none"
           /\ \A j \in Fds : j < i => c.files_[j] # "none"

\* FileDescriptorTable::is_valid_fd
is_valid_fd(fd) == fd >= 0 /\ fd < FdSize

\* FileDescriptorTable::alloc_fd: the table after the call, and the result
alloc_fd(c, file) ==
    IF FirstFree(c) = -1 THEN c
    ELSE [c EXCEPT !.files_[FirstFree(c)] = file]

AllocCode(c) == IF FirstFree(c) = -1 THEN "FS_ENOMEM" ELSE "SUCCESS"

\* FileDescriptorTable::free_fd
free_fd(c, fd) ==
    IF is_valid_fd(fd) THEN [c EXCEPT !.files_[fd] = "none"] ELSE c

\* FileDescriptorTable::dup_fd
DupCode(c, fd) ==
    IF ~is_valid_fd(fd) THEN "FS_EINVAL"
    ELSE IF c.files_[fd] = "none" THEN "FS_EINVAL"
    ELSE AllocCode(c)

dup_fd(c, fd) ==
    IF DupCode(c, fd) = "SUCCESS" THEN alloc_fd(c, c.files_[fd]) ELSE c

\* FileDescriptorTable::dup2_fd
Dup2Code(c, oldfd, newfd) ==
    IF ~is_valid_fd(oldfd) \/ newfd < 0 \/ newfd >= FdSize THEN "FS_EINVAL"
    ELSE IF c.files_[oldfd] = "none" THEN "FS_EINVAL"
    ELSE "SUCCESS"

dup2_fd(c, oldfd, newfd) ==
    IF Dup2Code(c, oldfd, newfd) = "SUCCESS"
    THEN [c EXCEPT !.files_[newfd] = c.files_[oldfd]]
    ELSE c

\* a truncate that keeps the old size
TruncateAttrKeepsSize(a, size) == Touch(a)

\* Inode::truncate, the last two assignments
TruncateAttr(a, size) == Touch([a EXCEPT !.size = size])

\* Inode::write, the last two assignments
WrittenAttr(a, end) ==
    Touch([a EXCEPT !.size = IF end > @ THEN end ELSE @])

\* ================================================================ state
VARIABLES
    pg,              \* the Page objects ever made, by number
    pages_,          \* PageCache::pages_ : key -> page number or NoPage
    lru_list_,       \* PageCache::lru_list_, head first
    dirty_list_,     \* PageCache::dirty_list_
    max_pages_, current_pages_,
    hits_, misses_, evictions_, writebacks_,
    data_,           \* MemoryBlockDevice::data_
    readonly_,       \* MemoryBlockDevice::readonly_
    bio_queue_,      \* MemoryBlockDevice::bio_queue_, front first
    stop_io_thread_, \* MemoryBlockDevice::stop_io_thread_
    io_thread_,      \* the worker: where it is in io_thread_func, its BIO
    callbacks,       \* the completion callbacks invoked so far, in order
    submitted,       \* number of submit_bio calls made
    dtor,            \* where ~MemoryBlockDevice is: none, join, returned
    imutex_,         \* per inode: the holder of Inode::mutex_, or NoThread
    ino_,            \* per inode: Inode::ino_
    ops_calls,       \* the calls made on the InodeOperations table, in order
    inode_cache_,    \* SuperBlock::inode_cache_, per inode number
    inode_cache_mutex_, \* holder of SuperBlock::inode_cache_mutex_
    pos_,            \* File::pos_
    file_inode_,     \* the inode of the File's dentry, or "none"
    dentries,        \* what the dentry tree holds at /a and at /a/b
    files_,          \* FileDescriptorTable::files_ : index -> File or "none"
    io_log,          \* the calls the block device and the superblock saw
    mutex_,          \* holder of PageCache::mutex_, or NoThread
    pc, loc,         \* per thread: position and locals of the call in progress
    held,            \* per thread: the SharedPtr<Page> the caller keeps
    ret,             \* per thread: what its last call returned
    attr_,           \* per inode: attr_.size and the owner write bit
    last,            \* the call or step taken last
    fuel             \* calls the callers may still start

vars == <<pg, pages_, lru_list_, dirty_list_, max_pages_, current_pages_,
          hits_, misses_, evictions_, writebacks_, data_, readonly_, io_log,
          bio_queue_, stop_io_thread_, io_thread_, callbacks, submitted, dtor,
          imutex_, ino_, ops_calls, inode_cache_, inode_cache_mutex_, pos_,
          file_inode_, dentries, files_,
          mutex_, pc, loc, held, ret, attr_, last, fuel>>

\* the cache, its pages and the device as one value, and back
Cur ==
    [pg |-> pg, pages_ |-> pages_, lru_list_ |-> lru_list_,
     dirty_list_ |-> dirty_list_, max_pages_ |-> max_pages_,
     current_pages_ |-> current_pages_, hits_ |-> hits_, misses_ |-> misses_,
     evictions_ |-> evictions_, writebacks_ |-> writebacks_,
     data_ |-> data_, readonly_ |-> readonly_, io_log |-> io_log,
     bio_queue_ |-> bio_queue_, stop_io_thread_ |-> stop_io_thread_,
     io_thread_ |-> io_thread_, callbacks |-> callbacks,
     submitted |-> submitted, dtor |-> dtor,
     imutex_ |-> imutex_, ino_ |-> ino_, ops_calls |-> ops_calls,
     inode_cache_ |-> inode_cache_,
     inode_cache_mutex_ |-> inode_cache_mutex_, pos_ |-> pos_,
     file_inode_ |-> file_inode_, dentries |-> dentries, files_ |-> files_]

Install(c) ==
    /\ pg' = c.pg
    /\ pages_' = c.pages_
    /\ lru_list_' = c.lru_list_
    /\ dirty_list_' = c.dirty_list_
    /\ max_pages_' = c.max_pages_
    /\ current_pages_' = c.current_pages_
    /\ hits_' = c.hits_
    /\ misses_' = c.misses_
    /\ evictions_' = c.evictions_
    /\ writebacks_' = c.writebacks_
    /\ data_' = c.data_
    /\ readonly_' = c.readonly_
    /\ io_log' = c.io_log
    /\ bio_queue_' = c.bio_queue_
    /\ stop_io_thread_' = c.stop_io_thread_
    /\ io_thread_' = c.io_thread_
    /\ callbacks' = c.callbacks
    /\ submitted' = c.submitted
    /\ dtor' = c.dtor
    /\ imutex_' = c.imutex_
    /\ ino_' = c.ino_
    /\ ops_calls' = c.ops_calls
    /\ inode_cache_' = c.inode_cache_
    /\ inode_cache_mutex_' = c.inode_cache_mutex_
    /\ pos_' = c.pos_
    /\ file_inode_' = c.file_inode_
    /\ dentries' = c.dentries
    /\ files_' = c.files_

\* MemoryBlockDevice::MemoryBlockDevice: the worker is started and waits
DeviceStarted ==
    /\ bio_queue_ = <<>>
    /\ stop_io_thread_ = FALSE
    /\ io_thread_ = [pc |-> "wait", bio |-> NoBio]
    /\ callbacks = <<>>
    /\ submitted = 0
    /\ dtor = "none"


\* the inode numbers a superblock hands out, and the paths of the dentry
\* tree below the root
InoNums == 1..2
TreePaths == {"/a", "/a/b"}

\* no VFS call made yet: the inode mutexes are free, the inodes carry
\* distinct numbers, the inode cache is empty, the File is at position 0
\* on ino1, and /a and /a/b are directories
VfsFresh ==
    /\ imutex_ = [i \in Inodes |-> NoThread]
    /\ ino_ = [i \in Inodes |-> IF i = "ino1" THEN 1 ELSE 2]
    /\ ops_calls = <<>>
    /\ inode_cache_ = [n \in InoNums |-> "none"]
    /\ inode_cache_mutex_ = NoThread
    /\ pos_ = 0
    /\ file_inode_ = "ino1"
    /\ dentries = [p \in TreePaths |-> "dir"]
    /\ files_ = [i \in Fds |-> "none"]

NoKey == [inode |-> "none", offset |-> 0]
\* locals of a call in progress.  For Inode::rename: the directory in
\* key.inode, new_dir, and in locks the mutexes still to be taken.  turn is the parity of the number of times
\* the loop body of evict_pages has run in this call.  dirty0, io0, wb0 and chained remember
\* what sync_pages found when it was called: the pages it collected, the
\* length of io_log, writebacks_, and whether the caller's previous call
\* was a sync_pages that reached its last return statement.  read_page
\* remembers in dirty0 the page it found if that page was Dirty, in io0 the
\* length of io_log and in buf0 the buffer the page had.
NoLoc == [key |-> NoKey, page |-> NoPage, count |-> 0, evicted |-> 0,
          op |-> "none", snap |-> <<>>, res |-> ResultOk, turn |-> 0,
          dirty0 |-> {}, io0 |-> 0, wb0 |-> 0, chained |-> FALSE,
          buf0 |-> ZeroBuf, new_dir |-> "none", locks |-> <<>>, ino |-> 0]
\* what a call returned.  For Inode::read and Inode::write: the inode, the
\* position, the byte count returned, the bytes moved, the file size at the
\* call, and (prev) the same facts about the caller's call before it.
NoPrev == [op |-> "none", ok |-> TRUE, inode |-> "none", pos |-> 0,
           bytes |-> <<>>, size0 |-> 0]
NoRet == [op |-> "none", ok |-> TRUE, page |-> NoPage, code |-> "none",
          dirty0 |-> {}, io0 |-> 0, wb0 |-> 0, chained |-> FALSE,
          inode |-> "none", pos |-> 0, n |-> 0, bytes |-> <<>>, size0 |-> 0,
          prev |-> NoPrev, buf0 |-> ZeroBuf, call |-> 0, new_dir |-> "none",
          ino |-> 0, path |-> "", dentry |-> "none", whence |-> 0,
          offset |-> 0]
PrevOf(r) == [op |-> r.op, ok |-> r.ok, inode |-> r.inode, pos |-> r.pos,
              bytes |-> r.bytes, size0 |-> r.size0]

\* PageCache::PageCache, MemoryBlockDevice::MemoryBlockDevice, Inode::Inode
Init ==
    /\ pg = <<>>
    /\ pages_ = [k \in Keys |-> NoPage]
    /\ lru_list_ = <<>>
    /\ dirty_list_ = <<>>
    /\ max_pages_ \in 1..MaxCap
    /\ current_pages_ = 0
    /\ hits_ = 0 /\ misses_ = 0 /\ evictions_ = 0 /\ writebacks_ = 0
    /\ data_ = [a \in 0..(DevSize - 1) |-> 0]
    /\ readonly_ \in BOOLEAN
    /\ io_log = <<>>
    /\ DeviceStarted
    /\ VfsFresh
    /\ mutex_ = NoThread
    /\ pc = [t \in Threads |-> "idle"]
    /\ loc = [t \in Threads |-> NoLoc]
    /\ held = [t \in Threads |-> NoPage]
    /\ ret = [t \in Threads |-> NoRet]
    /\ attr_ = [i \in Inodes |-> FileAttr(0, TRUE)]
    /\ last = "init"
    /\ fuel = MaxCalls

CanCall(t) == pc[t] = "idle" /\ fuel > 0
Returns(t, r) ==
    /\ pc' = [pc EXCEPT ![t] = "idle"]
    /\ loc' = [loc EXCEPT ![t] = NoLoc]
    /\ ret' = [ret EXCEPT ![t] = r]

\* ------------------------------------------------ PageCache::find_page
FindPage(t, key) ==
    /\ CanCall(t) /\ mutex_ = NoThread
    /\ Install(find_page_locked(Cur, key))
    /\ held' = [held EXCEPT ![t] = Lookup(Cur, key)]
    /\ Returns(t, [NoRet EXCEPT !.op = "find_page", !.page = Lookup(Cur, key)])
    /\ last' = "find_page"
    /\ fuel' = fuel - 1
    /\ UNCHANGED <<mutex_, attr_>>

\* ------------------- PageCache::find_or_create_page (op "foc"), and the
\* same call as the first statement of read_page (op "rp")
AfterFoc(t, op, page) ==
    IF op = "rp"
    THEN /\ pc' = [pc EXCEPT ![t] = "rp_check"]
         /\ loc' = [loc EXCEPT ![t] =
                      [NoLoc EXCEPT !.op = op, !.page = page,
                                    !.dirty0 = IF /\ page \in DOMAIN pg
                                                  /\ pg[page].state_ = "DIRTY"
                                               THEN {page} ELSE {},
                                    !.io0 = Len(io_log),
                                    !.buf0 = IF page \in DOMAIN pg
                                             THEN pg[page].buf ELSE ZeroBuf]]
         /\ UNCHANGED <<ret, held>>
    ELSE /\ held' = [held EXCEPT ![t] = page]
         /\ Returns(t, [NoRet EXCEPT !.op = "find_or_create_page",
                                     !.page = page])

FindOrCreate(t, key, op) ==
    /\ CanCall(t) /\ mutex_ = NoThread
    /\ op \in {"foc", "rp"}
    /\ Lookup(Cur, key) # NoPage \/ Len(pg) < MaxAlloc
    /\ fuel' = fuel - 1
    /\ last' = "find_or_create_page"
    /\ UNCHANGED attr_
    /\ LET c1 == find_page_locked(Cur, key)
       IN IF Lookup(Cur, key) # NoPage
          THEN /\ Install(c1)
               /\ AfterFoc(t, op, Lookup(Cur, key))
               /\ UNCHANGED mutex_
          ELSE IF NeedsEvict(c1)
          THEN /\ Install(c1)
               /\ mutex_' = t
               /\ pc' = [pc EXCEPT ![t] = "evict"]
               /\ loc' = [loc EXCEPT ![t] =
                            [NoLoc EXCEPT !.key = key, !.op = op, !.count = 1]]
               /\ UNCHANGED <<ret, held>>
          ELSE /\ Install(CreatePage(c1, key))
               /\ AfterFoc(t, op, Len(pg) + 1)
               /\ UNCHANGED mutex_

\* ------------------------------- PageCache::evict_pages, one iteration
EvictStep(t) ==
    /\ pc[t] = "evict"
    /\ EvictContinues(Cur, loc[t].count, loc[t].evicted)
    /\ Install(EvictBody(Cur))
    /\ loc' = [loc EXCEPT ![t].evicted =
                                IF EvictBodyEvicts(Cur) THEN @ + 1 ELSE @,
                           ![t].turn = 1 - @]
    /\ last' = IF EvictBodyEvicts(Cur) THEN "evict" ELSE "evict_skip"
    /\ UNCHANGED <<mutex_, pc, held, ret, attr_, fuel>>

\* evict_pages returns; allocate_page or set_max_pages goes on and the
\* mutex is released
EvictDone(t) ==
    /\ pc[t] = "evict"
    /\ ~EvictContinues(Cur, loc[t].count, loc[t].evicted)
    /\ mutex_' = NoThread
    /\ last' = "evict_done"
    /\ UNCHANGED <<attr_, fuel>>
    /\ IF loc[t].op = "smp"
       THEN /\ Install(Cur)
            /\ Returns(t, [NoRet EXCEPT !.op = "set_max_pages"])
            /\ UNCHANGED held
       ELSE /\ Install(CreatePage(Cur, loc[t].key))
            /\ AfterFoc(t, loc[t].op, Len(pg) + 1)

\* ------------------------------------------------ PageCache::read_page
\* what the caller of read_page gets back
ReadRet(t) ==
    [NoRet EXCEPT !.op = "read_page", !.dirty0 = loc[t].dirty0,
                  !.io0 = loc[t].io0, !.buf0 = loc[t].buf0]

\* the first is_uptodate() test, made without any lock
ReadPageCheck(t) ==
    /\ pc[t] = "rp_check"
    /\ Install(Cur)
    /\ last' = "rp_check"
    /\ UNCHANGED <<mutex_, attr_, fuel>>
    /\ IF is_uptodate(Cur, loc[t].page)
       THEN /\ held' = [held EXCEPT ![t] = loc[t].page]
            /\ Returns(t, [ReadRet(t) EXCEPT !.page = loc[t].page])
       ELSE /\ pc' = [pc EXCEPT ![t] = "rp_lock"]
            /\ UNCHANGED <<loc, held, ret>>

\* page->lock() returns
ReadPageLock(t) ==
    /\ pc[t] = "rp_lock"
    /\ lock_ready(Cur, loc[t].page)
    /\ Install(PageLock(Cur, loc[t].page))
    /\ pc' = [pc EXCEPT ![t] = "rp_io"]
    /\ last' = "rp_lock"
    /\ UNCHANGED <<mutex_, loc, held, ret, attr_, fuel>>

\* the second is_uptodate() test, the device read and the unlock
ReadPageIo(t) ==
    /\ pc[t] = "rp_io"
    /\ last' = "rp_io"
    /\ UNCHANGED <<mutex_, attr_, fuel>>
    /\ Install(ReadLocked(Cur, loc[t].page))
    /\ IF ReadLockedOk(Cur, loc[t].page)
       THEN /\ held' = [held EXCEPT ![t] = loc[t].page]
            /\ Returns(t, [ReadRet(t) EXCEPT !.page = loc[t].page])
       ELSE /\ UNCHANGED held
            /\ Returns(t, [ReadRet(t) EXCEPT !.ok = FALSE,
                                              !.code = "FS_EINVAL"])

\* ---------------- a caller fills the buffer of the page it holds, then
\* Page::mark_dirty
MarkDirty(t, v) ==
    /\ CanCall(t) /\ held[t] # NoPage
    /\ Install(mark_dirty([Cur EXCEPT !.pg[held[t]].buf =
                                        [j \in 0..(PAGE_SIZE - 1) |-> v]],
                          held[t]))
    /\ Returns(t, [NoRet EXCEPT !.op = "mark_dirty", !.page = held[t]])
    /\ last' = "mark_dirty"
    /\ fuel' = fuel - 1
    /\ UNCHANGED <<mutex_, held, attr_>>

\* ------------------------- Page::lock, Page::try_lock and Page::unlock
\* called by the holder of a page.  lock() returns once the state is not
\* LOCKED; between its return and unlock() the thread is at "locked".
\* dirty0 remembers the page if it was Dirty when lock() took it.
Locked(t, op) ==
    /\ pc' = [pc EXCEPT ![t] = "locked"]
    /\ loc' = [loc EXCEPT ![t] =
                 [NoLoc EXCEPT !.op = op, !.page = held[t],
                               !.dirty0 = IF is_dirty(Cur, held[t])
                                          THEN {held[t]} ELSE {}]]
    /\ UNCHANGED ret

PageLockCall(t) ==
    /\ CanCall(t) /\ held[t] # NoPage
    /\ lock_ready(Cur, held[t])
    /\ Install(PageLock(Cur, held[t]))
    /\ Locked(t, "lock")
    /\ last' = "lock"
    /\ fuel' = fuel - 1
    /\ UNCHANGED <<mutex_, held, attr_>>

PageTryLock(t) ==
    /\ CanCall(t) /\ held[t] # NoPage
    /\ last' = "try_lock"
    /\ fuel' = fuel - 1
    /\ UNCHANGED <<mutex_, held, attr_>>
    /\ IF lock_ready(Cur, held[t])
       THEN Install(PageLock(Cur, held[t])) /\ Locked(t, "try_lock")
       ELSE /\ Install(Cur)
            /\ Returns(t, [NoRet EXCEPT !.op = "try_lock", !.ok = FALSE,
                                        !.page = held[t]])

PageUnlockCall(t) ==
    /\ pc[t] = "locked"
    /\ Install(PageUnlock(Cur, loc[t].page))
    /\ Returns(t, [NoRet EXCEPT !.op = "unlock", !.page = loc[t].page,
                                !.dirty0 = loc[t].dirty0])
    /\ last' = "unlock"
    /\ UNCHANGED <<mutex_, held, attr_, fuel>>

\* PageCache::write_page
WritePage(t) ==
    /\ CanCall(t) /\ held[t] # NoPage /\ mutex_ = NoThread
    /\ Install(update_lru(mark_dirty(Cur, held[t]), held[t]))
    /\ Returns(t, [NoRet EXCEPT !.op = "write_page", !.page = held[t]])
    /\ last' = "write_page"
    /\ fuel' = fuel - 1
    /\ UNCHANGED <<mutex_, held, attr_>>

\* ------------------------------------------------ Page::get, Page::put
Get(t) ==
    /\ CanCall(t) /\ held[t] # NoPage
    /\ Install(get(Cur, held[t]))
    /\ Returns(t, [NoRet EXCEPT !.op = "get", !.page = held[t]])
    /\ last' = "get"
    /\ fuel' = fuel - 1
    /\ UNCHANGED <<mutex_, held, attr_>>

\* the decrement of put(); at zero the thread goes on to release_page.
\* The caller gives its pointer up with the put.
Put(t) ==
    /\ CanCall(t) /\ held[t] # NoPage
    /\ Install(PutDec(Cur, held[t]))
    /\ held' = [held EXCEPT ![t] = NoPage]
    /\ last' = "put"
    /\ fuel' = fuel - 1
    /\ UNCHANGED <<mutex_, attr_>>
    /\ IF PutDec(Cur, held[t]).pg[held[t]].ref_count_ = 0
       THEN /\ pc' = [pc EXCEPT ![t] = "release"]
            /\ loc' = [loc EXCEPT ![t] = [NoLoc EXCEPT !.op = "put",
                                                       !.page = held[t]]]
            /\ UNCHANGED ret
       ELSE Returns(t, [NoRet EXCEPT !.op = "put", !.page = held[t]])

\* PageCache::release_page, called from put()
ReleasePage(t) ==
    /\ pc[t] = "release" /\ mutex_ = NoThread
    /\ Install(release_page(Cur, loc[t].page))
    /\ Returns(t, [NoRet EXCEPT !.op = "put", !.page = loc[t].page])
    /\ last' = "release_page"
    /\ UNCHANGED <<mutex_, held, attr_, fuel>>

\* ----------------------------------------------- PageCache::sync_pages
\* inode is an inode, or "all" for the call without an argument; op is
\* "sync" for a direct call and "isync" for the call made by Inode::sync
Range(q) == {q[j] : j \in DOMAIN q}

SyncStart(t, inode, op) ==
    /\ CanCall(t) /\ mutex_ = NoThread
    /\ op \in {"sync", "isync"}
    /\ op = "isync" => inode \in Inodes
    /\ Install(Cur)
    /\ pc' = [pc EXCEPT ![t] = "sync_lock"]
    /\ loc' = [loc EXCEPT ![t] =
                 [NoLoc EXCEPT !.op = op,
                               !.key = [inode |-> inode, offset |-> 0],
                               !.snap = SyncSnapshot(Cur, inode),
                               !.dirty0 = Range(SyncSnapshot(Cur, inode)),
                               !.io0 = Len(io_log),
                               !.wb0 = writebacks_,
                               !.chained = /\ last = "sync_return"
                                           /\ ret[t].op = "sync_pages"
                                           /\ ret[t].code = "SUCCESS"]]
    /\ last' = "sync_start"
    /\ fuel' = fuel - 1
    /\ UNCHANGED <<mutex_, held, ret, attr_>>

SyncLock(t) ==
    /\ pc[t] = "sync_lock" /\ loc[t].snap # <<>>
    /\ lock_ready(Cur, Head(loc[t].snap))
    /\ Install(PageLock(Cur, Head(loc[t].snap)))
    /\ pc' = [pc EXCEPT ![t] = "sync_body"]
    /\ last' = "sync_lock"
    /\ UNCHANGED <<mutex_, loc, held, ret, attr_, fuel>>

\* what the caller of sync_pages gets back
SyncRet(t, res) ==
    [NoRet EXCEPT !.op = "sync_pages", !.ok = res.is_ok_, !.code = res.error_,
                  !.dirty0 = loc[t].dirty0, !.io0 = loc[t].io0,
                  !.wb0 = loc[t].wb0, !.chained = loc[t].chained]

\* sync_pages hands res back: to its caller, or to Inode::sync
SyncHandsBack(t, res) ==
    IF loc[t].op = "isync"
    THEN /\ pc' = [pc EXCEPT ![t] = "isync_tail"]
         /\ loc' = [loc EXCEPT ![t].res = res, ![t].snap = <<>>]
         /\ last' = "sync_body"
         /\ UNCHANGED ret
    ELSE /\ Returns(t, SyncRet(t, res))
         /\ last' = "sync_return"

SyncStep(t) ==
    /\ pc[t] = "sync_body"
    /\ Install(SyncBody(Cur, Head(loc[t].snap)))
    /\ UNCHANGED <<mutex_, held, attr_, fuel>>
    /\ IF SyncFailed(Cur, Head(loc[t].snap))
       THEN SyncHandsBack(t, ResultFromCode(IF readonly_ THEN "FS_EROFS"
                                                         ELSE "FS_EINVAL"))
       ELSE /\ pc' = [pc EXCEPT ![t] = "sync_lock"]
            /\ loc' = [loc EXCEPT ![t].snap = Tail(@)]
            /\ last' = "sync_body"
            /\ UNCHANGED ret

\* the last line of sync_pages: return Result<void>(ErrorCode::SUCCESS)
SyncReturn(t) ==
    /\ pc[t] = "sync_lock" /\ loc[t].snap = <<>>
    /\ Install(Cur)
    /\ SyncHandsBack(t, ResultFromCode("SUCCESS"))
    /\ UNCHANGED <<mutex_, held, attr_, fuel>>

\* ------------------------------------------------------- Inode::sync
\* after sync_pages: an error result is returned as it is, otherwise the
\* superblock operations' write_inode is called and its result returned
WriteInodeLog(c, inode) ==
    [c EXCEPT !.io_log = Append(@, [op |-> "write_inode", sector |-> 0,
                                    buf |-> NoPage, ok |-> TRUE,
                                    held |-> FALSE])]

InodeSyncTail(t) ==
    /\ pc[t] = "isync_tail"
    /\ Install(IF loc[t].res.is_ok_
               THEN WriteInodeLog(Cur, loc[t].key.inode) ELSE Cur)
    /\ Returns(t, [SyncRet(t, IF loc[t].res.is_ok_ THEN ResultOk
                                                   ELSE loc[t].res)
                   EXCEPT !.op = "Inode::sync"])
    /\ last' = "isync_return"
    /\ UNCHANGED <<mutex_, held, attr_, fuel>>

\* -------------------------------------------- PageCache::set_max_pages
SetMaxPages(t, n) ==
    /\ CanCall(t) /\ mutex_ = NoThread
    /\ Install([Cur EXCEPT !.max_pages_ = n])
    /\ last' = "set_max_pages"
    /\ fuel' = fuel - 1
    /\ UNCHANGED <<held, attr_>>
    /\ IF ULess(n, current_pages_)
       THEN /\ mutex_' = t
            /\ pc' = [pc EXCEPT ![t] = "evict"]
            /\ loc' = [loc EXCEPT ![t] = [NoLoc EXCEPT !.op = "smp",
                                            !.count = current_pages_ - n]]
            /\ UNCHANGED ret
       ELSE /\ Returns(t, [NoRet EXCEPT !.op = "set_max_pages"])
            /\ UNCHANGED mutex_

\* ----------------------------------------- PageCache::invalidate_pages
InvalidatePages(t, inode) ==
    /\ CanCall(t) /\ mutex_ = NoThread
    /\ Install(invalidate_pages(Cur, inode))
    /\ Returns(t, [NoRet EXCEPT !.op = "invalidate_pages", !.inode = inode])
    /\ last' = "invalidate_pages"
    /\ fuel' = fuel - 1
    /\ UNCHANGED <<mutex_, held, attr_>>

\* ------------------------------------------------------ Inode::write
\* a call that never returns leaves its thread inside the call
Hangs(t) ==
    /\ pc' = [pc EXCEPT ![t] = "hung"]
    /\ UNCHANGED <<loc, ret, attr_>>

\* Inode::write once the loop has ended with r
WriteReturns(t, inode, pos, r, rt) ==
    IF r.hung
    THEN Install(r.c) /\ Hangs(t)
    ELSE IF ~r.ok
    THEN /\ Install(r.c)
         /\ Returns(t, [rt EXCEPT !.ok = FALSE, !.code = "FS_EINVAL"])
         /\ UNCHANGED attr_
    ELSE /\ Install(r.c)
         /\ Returns(t, [rt EXCEPT !.n = r.n])
         /\ attr_' = [attr_ EXCEPT ![inode] = WrittenAttr(@, pos + r.n)]

InodeWrite(t, inode, pos, data) ==
    /\ CanCall(t) /\ mutex_ = NoThread
    /\ fuel' = fuel - 1
    /\ last' = "Inode::write"
    /\ UNCHANGED <<mutex_, held>>
    /\ IF ~is_writable(attr_[inode])
       THEN /\ Install(Cur)
            /\ Returns(t, [NoRet EXCEPT !.op = "Inode::write", !.ok = FALSE,
                                        !.code = "FS_EACCES", !.inode = inode,
                                        !.pos = pos, !.bytes = data,
                                        !.size0 = attr_[inode].size,
                                        !.prev = PrevOf(ret[t])])
            /\ UNCHANGED attr_
       ELSE WriteReturns(t, inode, pos, WriteLoop(Cur, inode, pos, data, 0),
                         [NoRet EXCEPT !.op = "Inode::write", !.inode = inode,
                                       !.pos = pos, !.bytes = data,
                                       !.size0 = attr_[inode].size,
                                       !.prev = PrevOf(ret[t])])

\* ------------------------------------------------------- Inode::read
\* Inode::read once the loop has ended with r
ReadReturns(t, r, rt) ==
    IF r.hung
    THEN Install(r.c) /\ Hangs(t)
    ELSE /\ Install(r.c)
         /\ UNCHANGED attr_
         /\ IF r.ok
            THEN Returns(t, [rt EXCEPT !.n = Len(r.bytes), !.bytes = r.bytes])
            ELSE Returns(t, [rt EXCEPT !.ok = FALSE, !.code = "FS_EINVAL"])

InodeRead(t, inode, pos, size) ==
    /\ CanCall(t) /\ mutex_ = NoThread
    /\ fuel' = fuel - 1
    /\ last' = "Inode::read"
    /\ UNCHANGED <<mutex_, held>>
    /\ IF pos >= attr_[inode].size
       THEN /\ Install(Cur)
            /\ Returns(t, [NoRet EXCEPT !.op = "Inode::read", !.inode = inode,
                                        !.pos = pos,
                                        !.size0 = attr_[inode].size,
                                        !.prev = PrevOf(ret[t])])
            /\ UNCHANGED attr_
       ELSE ReadReturns(t,
               ReadLoop(Cur, inode, pos,
                        Min(size, attr_[inode].size - pos), <<>>),
               [NoRet EXCEPT !.op = "Inode::read", !.inode = inode,
                             !.pos = pos, !.size0 = attr_[inode].size,
                             !.prev = PrevOf(ret[t])])

\* --------------------------------------------------- Inode::truncate
\* ret keeps the new size in pos and the size at the call in size0
InodeTruncate(t, inode, size) ==
    /\ CanCall(t) /\ mutex_ = NoThread
    /\ fuel' = fuel - 1
    /\ last' = "Inode::truncate"
    /\ UNCHANGED <<mutex_, held>>
    /\ Returns(t, [NoRet EXCEPT !.op = "Inode::truncate", !.inode = inode,
                                !.pos = size, !.size0 = attr_[inode].size,
                                !.prev = PrevOf(ret[t])])
    /\ IF size = attr_[inode].size
       THEN Install(Cur) /\ UNCHANGED attr_
       ELSE /\ Install(IF size < attr_[inode].size
                       THEN invalidate_pages(Cur, inode) ELSE Cur)
            /\ attr_' = [attr_ EXCEPT ![inode] = TruncateAttr(@, size)]

\* ------------------------------- Inode::readdir, lookup, create, unlink,
\* mkdir, rmdir: one call, the inode mutex taken and released inside it
DirOp(t, op, inode, ok) ==
    /\ CanCall(t)
    /\ is_dir(attr_[inode]) => imutex_[inode] = NoThread
    /\ Install([Cur EXCEPT !.ops_calls =
                   IF DirCallsOps(attr_[inode], op)
                   THEN Append(@, [op |-> op, dir |-> inode, by |-> t])
                   ELSE @])
    /\ attr_' = IF DirCallsOps(attr_[inode], op) /\ op \in Mutating /\ ok
                THEN [attr_ EXCEPT ![inode] = Touch(@)] ELSE attr_
    /\ Returns(t, [NoRet EXCEPT !.op = op, !.inode = inode,
                                !.code = DirCode(attr_[inode], op, ok),
                                !.ok = (DirCode(attr_[inode], op, ok)
                                          = "SUCCESS"),
                                !.n = Len(ops_calls), !.call = fuel])
    /\ last' = "dir_op"
    /\ fuel' = fuel - 1
    /\ UNCHANGED <<mutex_, held>>

\* ----------------------------------------------------- Inode::rename
\* the two tests made before any mutex is taken.  ret keeps in n the number
\* of operation-table calls made when the call began, in call its number.
RenameRet(t, dir, new_dir, code, n, call) ==
    [NoRet EXCEPT !.op = "rename", !.inode = dir, !.new_dir = new_dir,
                  !.code = code, !.ok = (code = "SUCCESS"), !.n = n,
                  !.call = call]

RenameStart(t, dir, new_dir) ==
    /\ CanCall(t)
    /\ Install(Cur)
    /\ fuel' = fuel - 1
    /\ last' = "rename_start"
    /\ UNCHANGED <<mutex_, held, attr_>>
    /\ IF ~is_dir(attr_[dir]) \/ ~is_dir(attr_[new_dir])
       THEN Returns(t, RenameRet(t, dir, new_dir, "FS_ENOTDIR",
                                 Len(ops_calls), fuel))
       ELSE /\ pc' = [pc EXCEPT ![t] = "rn_lock"]
            /\ loc' = [loc EXCEPT ![t] =
                         [NoLoc EXCEPT !.op = "rename", !.key.inode = dir,
                                       !.new_dir = new_dir,
                                       !.io0 = Len(ops_calls),
                                       !.wb0 = fuel,
                                       !.locks = LockOrder(Cur, dir, new_dir)]]
            /\ UNCHANGED ret

\* std::unique_lock<std::mutex>(m) returns once m is free
RenameLock(t) ==
    /\ pc[t] = "rn_lock"
    /\ imutex_[Head(loc[t].locks)] = NoThread
    /\ Install([Cur EXCEPT !.imutex_[Head(loc[t].locks)] = t])
    /\ pc' = [pc EXCEPT ![t] = IF Tail(loc[t].locks) = <<>>
                                THEN "rn_body" ELSE "rn_lock"]
    /\ loc' = [loc EXCEPT ![t].locks = Tail(@)]
    /\ last' = "rename_lock"
    /\ UNCHANGED <<mutex_, held, ret, attr_, fuel>>

\* the permission test, the operation table's rename, the times, and the
\* return, which releases the mutexes the call holds
RenameBody(t, ok) ==
    /\ pc[t] = "rn_body"
    /\ last' = "rename_body"
    /\ UNCHANGED <<mutex_, held, fuel>>
    /\ LET dir == loc[t].key.inode
           new_dir == loc[t].new_dir
           allowed == is_writable(attr_[dir]) /\ is_writable(attr_[new_dir])
           unlocked == [i \in Inodes |->
                          IF imutex_[i] = t THEN NoThread ELSE imutex_[i]]
       IN /\ Install([Cur EXCEPT
                  !.imutex_ = unlocked,
                  !.ops_calls = IF allowed
                                THEN Append(@, [op |-> "rename", dir |-> dir,
                                                by |-> t])
                                ELSE @])
          /\ attr_' = IF allowed /\ ok
                      THEN [i \in Inodes |->
                              IF i \in {dir, new_dir} THEN Touch(attr_[i])
                              ELSE attr_[i]]
                      ELSE attr_
          /\ Returns(t, RenameRet(t, dir, new_dir,
                                  IF ~allowed THEN "FS_EACCES"
                                  ELSE IF ok THEN "SUCCESS" ELSE "FS_EIO",
                                  loc[t].io0, loc[t].wb0))

\* ------------------------------------------------ SuperBlock::get_inode
\* inode_cache_[n] is "none" (no entry), "live" (a weak pointer to an inode
\* somebody holds) or "expired" (a weak pointer to a destroyed inode).
\* The std::lock_guard taken first is held until the call returns.
GetInodeLock(t, n) ==
    /\ CanCall(t) /\ inode_cache_mutex_ = NoThread
    /\ Install([Cur EXCEPT !.inode_cache_mutex_ = t])
    /\ pc' = [pc EXCEPT ![t] = "gi_find"]
    /\ loc' = [loc EXCEPT ![t] = [NoLoc EXCEPT !.op = "get_inode",
                                               !.ino = n, !.wb0 = fuel]]
    /\ fuel' = fuel - 1
    /\ last' = "get_inode_lock"
    /\ UNCHANGED <<mutex_, held, ret, attr_>>

GetInodeRet(t, code, loaded) ==
    [NoRet EXCEPT !.op = "get_inode", !.ino = loc[t].ino, !.code = code,
                  !.ok = (code = "SUCCESS"), !.n = loaded,
                  !.call = loc[t].wb0]

\* the look in the cache and ops_->read_inode(ino), which succeeds (ok) or
\* not; after a successful read the call goes on to cache_inode
GetInodeFind(t, ok) ==
    /\ pc[t] = "gi_find"
    /\ last' = "get_inode_find"
    /\ UNCHANGED <<mutex_, held, attr_, fuel>>
    /\ LET n == loc[t].ino
           erased == [Cur EXCEPT !.inode_cache_[n] = "none"]
       IN IF inode_cache_[n] = "live"
          THEN /\ Install([Cur EXCEPT !.inode_cache_mutex_ = NoThread])
               /\ Returns(t, GetInodeRet(t, "SUCCESS", 0))
          ELSE IF ok
          THEN /\ Install(erased)
               /\ pc' = [pc EXCEPT ![t] = "gi_cache"]
               /\ UNCHANGED <<loc, ret>>
          ELSE /\ Install([erased EXCEPT !.inode_cache_mutex_ = NoThread])
               /\ Returns(t, GetInodeRet(t, "FS_EIO", 0))

\* cache_inode called from get_inode: std::lock_guard on the mutex the
\* thread holds.  Locking a std::mutex its owner holds is undefined: the
\* thread waits for itself for ever (no step from this state), or the lock
\* goes through, the entry is stored and the call returns (this step).
GetInodeCache(t) ==
    /\ pc[t] = "gi_cache"
    /\ inode_cache_mutex_ \in {NoThread, t}
    /\ Install([Cur EXCEPT !.inode_cache_[loc[t].ino] = "live",
                           !.inode_cache_mutex_ = NoThread])
    /\ Returns(t, GetInodeRet(t, "SUCCESS", 1))
    /\ last' = "get_inode_cache"
    /\ UNCHANGED <<mutex_, held, attr_, fuel>>

\* SuperBlock::cache_inode called by itself
CacheInode(t, n) ==
    /\ CanCall(t) /\ inode_cache_mutex_ = NoThread
    /\ Install([Cur EXCEPT !.inode_cache_[n] = "live"])
    /\ Returns(t, [NoRet EXCEPT !.op = "cache_inode", !.ino = n,
                                !.call = fuel])
    /\ fuel' = fuel - 1
    /\ last' = "cache_inode"
    /\ UNCHANGED <<mutex_, held, attr_>>

\* SuperBlock::evict_inode
EvictInode(t, n) ==
    /\ CanCall(t) /\ inode_cache_mutex_ = NoThread
    /\ Install([Cur EXCEPT !.inode_cache_[n] = "none"])
    /\ Returns(t, [NoRet EXCEPT !.op = "evict_inode", !.ino = n,
                                !.call = fuel])
    /\ fuel' = fuel - 1
    /\ last' = "evict_inode"
    /\ UNCHANGED <<mutex_, held, attr_>>

\* the last SharedPtr<Inode> to a cached inode goes away
DropInode(n) ==
    /\ inode_cache_[n] = "live"
    /\ Install([Cur EXCEPT !.inode_cache_[n] = "expired"])
    /\ last' = "drop_inode"
    /\ UNCHANGED <<mutex_, held, attr_, fuel, pc, loc, ret>>

\* ---------------------------------------------------------- VFS::lookup
VfsLookup(t, path) ==
    /\ CanCall(t)
    /\ Install(Cur)
    /\ Returns(t, [NoRet EXCEPT !.op = "lookup", !.path = path,
                                !.code = LookupCode(Cur, path),
                                !.ok = (LookupCode(Cur, path) = "SUCCESS"),
                                !.call = fuel])
    /\ fuel' = fuel - 1
    /\ last' = "lookup"
    /\ UNCHANGED <<mutex_, held, attr_>>

\* ----------------------------------------------------------- File::seek
\* file_inode_ is dentry_->get_inode(), "none" for a dentry without inode.
SeekRet(t, offset, whence, size) ==
    [NoRet EXCEPT !.op = "seek", !.offset = offset, !.whence = whence,
                  !.n = pos_, !.size0 = size, !.call = fuel,
                  !.inode = file_inode_]

FileSeek(t, offset, whence) ==
    /\ CanCall(t)
    /\ whence = 2 => file_inode_ # "none"
    /\ LET size == IF file_inode_ = "none" THEN 0
                   ELSE attr_[file_inode_].size
           new == SeekPos(pos_, size, offset, whence)
       IN /\ Install([Cur EXCEPT !.pos_ = new])
          /\ Returns(t, [SeekRet(t, offset, whence, size) EXCEPT
                           !.code = SeekCode(whence),
                           !.ok = (SeekCode(whence) = "SUCCESS"),
                           !.pos = IF SeekCode(whence) = "SUCCESS"
                                   THEN new ELSE 0])
    /\ fuel' = fuel - 1
    /\ last' = "seek"
    /\ UNCHANGED <<mutex_, held, attr_>>

\* whence 2 on a file whose dentry has no inode: get_size() is called
\* through a null pointer, which is undefined.  The call stops the program
\* or goes on with some size.
FileSeekNull(t, offset, crash, size) ==
    /\ CanCall(t)
    /\ file_inode_ = "none"
    /\ fuel' = fuel - 1
    /\ last' = "seek"
    /\ UNCHANGED <<mutex_, held, attr_>>
    /\ IF crash
       THEN /\ Install(Cur)
            /\ pc' = [u \in Threads |-> "crashed"]
            /\ UNCHANGED <<loc, ret>>
       ELSE /\ Install([Cur EXCEPT !.pos_ = SeekPos(pos_, size, offset, 2)])
            /\ Returns(t, [SeekRet(t, offset, 2, size) EXCEPT
                             !.code = "SUCCESS",
                             !.pos = SeekPos(pos_, size, offset, 2)])

\* ------------------------------------------------ FileDescriptorTable
\* each call runs under the table's mutex from start to return.  ret keeps
\* the descriptor given in pos and the one returned in n.
FdReturns(t, op, fd, code, n) ==
    /\ Returns(t, [NoRet EXCEPT !.op = op, !.pos = fd, !.code = code,
                                !.ok = (code = "SUCCESS"), !.n = n,
                                !.call = fuel])
    /\ last' = op
    /\ fuel' = fuel - 1
    /\ UNCHANGED <<mutex_, held, attr_>>

AllocFd(t, file) ==
    /\ CanCall(t)
    /\ Install(alloc_fd(Cur, file))
    /\ FdReturns(t, "alloc_fd", -1, AllocCode(Cur), FirstFree(Cur))

FreeFd(t, fd) ==
    /\ CanCall(t)
    /\ Install(free_fd(Cur, fd))
    /\ FdReturns(t, "free_fd", fd,
                 IF is_valid_fd(fd) THEN "SUCCESS" ELSE "FS_EINVAL", -1)

DupFd(t, fd) ==
    /\ CanCall(t)
    /\ Install(dup_fd(Cur, fd))
    /\ FdReturns(t, "dup_fd", fd, DupCode(Cur, fd),
                 IF DupCode(Cur, fd) = "SUCCESS" THEN FirstFree(Cur) ELSE -1)

Dup2Fd(t, oldfd, newfd) ==
    /\ CanCall(t)
    /\ Install(dup2_fd(Cur, oldfd, newfd))
    /\ FdReturns(t, "dup2_fd", oldfd, Dup2Code(Cur, oldfd, newfd),
                 IF Dup2Code(Cur, oldfd, newfd) = "SUCCESS" THEN newfd ELSE -1)

\* ------------------------------------------------- MemoryBlockDevice
\* the synchronous calls; the caller's buffer for a write holds v in every
\* byte.  ret keeps the sector in pos, the byte count in n and the bytes
\* read or written in bytes and the size asked for in size0.
DevReturns(t, op, sector, size, code, n, bytes) ==
    /\ Returns(t, [NoRet EXCEPT !.op = op, !.ok = (code = "SUCCESS"),
                                !.code = code, !.pos = sector, !.n = n,
                                !.bytes = bytes, !.size0 = size])
    /\ last' = op
    /\ fuel' = fuel - 1
    /\ UNCHANGED <<mutex_, held, attr_>>

DevRead(t, sector, size) ==
    /\ CanCall(t) /\ dtor = "none"
    /\ Install(Cur)
    /\ DevReturns(t, "MemoryBlockDevice::read", sector, size, ReadCode(sector),
                  Len(MemRead(Cur, sector, size)), MemRead(Cur, sector, size))

DevWrite(t, sector, size, v) ==
    /\ CanCall(t) /\ dtor = "none"
    /\ Install(MemWrite(Cur, sector, [j \in 1..size |-> v]))
    /\ DevReturns(t, "MemoryBlockDevice::write", sector, size,
                  WriteCode(Cur, sector),
                  IF WriteCode(Cur, sector) = "SUCCESS"
                  THEN ReadSize(sector, size) ELSE 0,
                  [j \in 1..size |-> v])

DevTrim(t, sector, size) ==
    /\ CanCall(t) /\ dtor = "none"
    /\ Install(MemTrim(Cur, sector, size))
    /\ DevReturns(t, "MemoryBlockDevice::trim", sector, size,
                  TrimCode(Cur, sector), 0, <<>>)

\* MemoryBlockDevice::submit_bio
SubmitBio(t, type, sector, size, v) ==
    /\ CanCall(t) /\ dtor = "none"
    /\ Install([Cur EXCEPT
          !.bio_queue_ = Append(@, [id |-> submitted + 1, type |-> type,
                                    sector |-> sector, size |-> size,
                                    data |-> IF type = "WRITE"
                                             THEN [j \in 1..size |-> v]
                                             ELSE <<>>]),
          !.submitted = @ + 1])
    /\ DevReturns(t, "submit_bio", sector, size, "SUCCESS", 0, <<>>)

\* MemoryBlockDevice::io_thread_func: bio_cv_.wait returns with the mutex
\* held; the worker leaves the loop when stop_io_thread_ is set, whatever
\* the queue holds, and otherwise takes the BIO at the front
WorkerStays ==
    UNCHANGED <<mutex_, pc, loc, held, ret, attr_, fuel>>

IoThreadWake ==
    /\ io_thread_.pc = "wait"
    /\ bio_queue_ # <<>> \/ stop_io_thread_
    /\ Install(IF stop_io_thread_
               THEN [Cur EXCEPT !.io_thread_ = [pc |-> "exited", bio |-> NoBio]]
               ELSE PopFront(Cur))
    /\ last' = "io_wake"
    /\ WorkerStays

\* process_bio(bio), made without the mutex, then lock.lock()
IoThreadProcess ==
    /\ io_thread_.pc = "process"
    /\ Install([process_bio(Cur, io_thread_.bio)
                EXCEPT !.io_thread_ = [pc |-> "drain", bio |-> NoBio]])
    /\ last' = "process_bio"
    /\ WorkerStays

\* the test of the inner loop: while (!bio_queue_.empty())
IoThreadDrain ==
    /\ io_thread_.pc = "drain"
    /\ Install(IF bio_queue_ # <<>>
               THEN PopFront(Cur)
               ELSE [Cur EXCEPT !.io_thread_ = [pc |-> "wait", bio |-> NoBio]])
    /\ last' = "io_drain"
    /\ WorkerStays

\* MemoryBlockDevice::~MemoryBlockDevice: set the flag and notify, then
\* join the worker
DtorStop ==
    /\ dtor = "none"
    /\ \A t \in Threads : pc[t] = "idle"
    /\ Install([Cur EXCEPT !.stop_io_thread_ = TRUE, !.dtor = "join"])
    /\ last' = "dtor_stop"
    /\ WorkerStays

DtorJoin ==
    /\ dtor = "join" /\ io_thread_.pc = "exited"
    /\ Install([Cur EXCEPT !.dtor = "returned"])
    /\ last' = "dtor_return"
    /\ WorkerStays

\* ================================================== the specification
\* One caller making calls on the cache one after the other; a call that
\* loops in evict_pages advances one iteration per step.
Next ==
    \/ \E t \in Callers, k \in Keys : FindPage(t, k)
    \/ \E t \in Callers, k \in Keys, op \in {"foc", "rp"} : FindOrCreate(t, k, op)
    \/ \E t \in Callers : EvictStep(t)
    \/ \E t \in Callers : EvictDone(t)
    \/ \E t \in Callers : ReadPageCheck(t)
    \/ \E t \in Callers : ReadPageLock(t)
    \/ \E t \in Callers : ReadPageIo(t)
    \/ \E t \in Callers, v \in 1..MaxVal : MarkDirty(t, v)
    \/ \E t \in Callers : WritePage(t)
    \/ \E t \in Callers : Get(t)
    \/ \E t \in Callers : Put(t)
    \/ \E t \in Callers : ReleasePage(t)
    \/ \E t \in Callers, i \in Inodes \cup {"all"}, op \in {"sync", "isync"} :
          SyncStart(t, i, op)
    \/ \E t \in Callers : SyncLock(t)
    \/ \E t \in Callers : SyncStep(t)
    \/ \E t \in Callers : SyncReturn(t)
    \/ \E t \in Callers : InodeSyncTail(t)
    \/ \E t \in Callers, n \in 0..MaxCap : SetMaxPages(t, n)
    \/ \E t \in Callers, i \in Inodes : InvalidatePages(t, i)

Spec == Init /\ [][Next]_vars

\* Several threads inside read_page at once, nothing else going on.
RaceNext ==
    \/ \E t \in Threads, k \in Keys : FindOrCreate(t, k, "rp")
    \/ \E t \in Threads : EvictStep(t)
    \/ \E t \in Threads : EvictDone(t)
    \/ \E t \in Threads : ReadPageCheck(t)
    \/ \E t \in Threads : ReadPageLock(t)
    \/ \E t \in Threads : ReadPageIo(t)

RaceSpec == Init /\ [][RaceNext]_vars

\* Calls that pin pages and calls that evict, under a scheduler that keeps
\* running a thread inside evict_pages.
PinNext ==
    \/ \E t \in Callers, k \in Keys : FindOrCreate(t, k, "foc")
    \/ \E t \in Callers : Get(t)
    \/ \E t \in Callers : Put(t)
    \/ \E t \in Callers : ReleasePage(t)
    \/ \E t \in Callers, n \in 0..MaxCap : SetMaxPages(t, n)
    \/ \E t \in Callers : EvictStep(t)
    \/ \E t \in Callers : EvictDone(t)

PinSpec ==
    /\ Init
    /\ [][PinNext]_vars
    /\ \A t \in Callers : WF_vars(EvictStep(t) \/ EvictDone(t))

\* Two callers that each keep a page pointer across the other's calls, on
\* one key, with MaxDeep calls between them.
MaxDeep == 7
AliasKey == [inode |-> "ino1", offset |-> 0]

AliasInit ==
    /\ pg = <<>>
    /\ pages_ = [k \in Keys |-> NoPage]
    /\ lru_list_ = <<>>
    /\ dirty_list_ = <<>>
    /\ max_pages_ = MaxCap
    /\ current_pages_ = 0
    /\ hits_ = 0 /\ misses_ = 0 /\ evictions_ = 0 /\ writebacks_ = 0
    /\ data_ = [a \in 0..(DevSize - 1) |-> 0]
    /\ readonly_ = FALSE
    /\ io_log = <<>>
    /\ DeviceStarted
    /\ VfsFresh
    /\ mutex_ = NoThread
    /\ pc = [t \in Threads |-> "idle"]
    /\ loc = [t \in Threads |-> NoLoc]
    /\ held = [t \in Threads |-> NoPage]
    /\ ret = [t \in Threads |-> NoRet]
    /\ attr_ = [i \in Inodes |-> FileAttr(0, TRUE)]
    /\ last = "init"
    /\ fuel = MaxDeep

AliasNext ==
    \/ \E t \in Threads : FindOrCreate(t, AliasKey, "foc")
    \/ \E t \in Threads : Get(t)
    \/ \E t \in Threads : Put(t)
    \/ \E t \in Threads : ReleasePage(t)
    \/ \E t \in Threads : InvalidatePages(t, AliasKey.inode)
    \/ \E t \in Threads : SetMaxPages(t, 0)
    \/ \E t \in Threads : EvictStep(t)
    \/ \E t \in Threads : EvictDone(t)

AliasSpec == AliasInit /\ [][AliasNext]_vars

\* One caller reading and writing files through their inodes.
MaxLen == 3
MaxIo == 2
FileEnd == NumOffsets * PAGE_SIZE
Buffers == UNION {[1..n -> 1..MaxVal] : n \in 1..MaxLen}

InodeInit ==
    /\ pg = <<>>
    /\ pages_ = [k \in Keys |-> NoPage]
    /\ lru_list_ = <<>>
    /\ dirty_list_ = <<>>
    /\ max_pages_ \in 1..MaxCap
    /\ current_pages_ = 0
    /\ hits_ = 0 /\ misses_ = 0 /\ evictions_ = 0 /\ writebacks_ = 0
    /\ data_ = [a \in 0..(DevSize - 1) |-> 0]
    /\ readonly_ = FALSE
    /\ io_log = <<>>
    /\ DeviceStarted
    /\ VfsFresh
    /\ mutex_ = NoThread
    /\ pc = [t \in Threads |-> "idle"]
    /\ loc = [t \in Threads |-> NoLoc]
    /\ held = [t \in Threads |-> NoPage]
    /\ ret = [t \in Threads |-> NoRet]
    /\ attr_ \in [Inodes -> {FileAttr(0, w) : w \in BOOLEAN}]
    /\ last = "init"
    /\ fuel = MaxIo

InodeNext ==
    \/ \E t \in Callers, i \in Inodes, pos \in 0..(FileEnd - 1), d \in Buffers :
          pos + Len(d) <= FileEnd /\ InodeWrite(t, i, pos, d)
    \/ \E t \in Callers, i \in Inodes, pos \in 0..(FileEnd - 1), n \in 1..MaxLen :
          pos + n <= FileEnd /\ InodeRead(t, i, pos, n)

InodeSpec == InodeInit /\ [][InodeNext]_vars

\* One caller that reads pages and unpins them.
MaxLru == 6

LruInit ==
    /\ pg = <<>>
    /\ pages_ = [k \in Keys |-> NoPage]
    /\ lru_list_ = <<>>
    /\ dirty_list_ = <<>>
    /\ max_pages_ \in 1..MaxCap
    /\ current_pages_ = 0
    /\ hits_ = 0 /\ misses_ = 0 /\ evictions_ = 0 /\ writebacks_ = 0
    /\ data_ = [a \in 0..(DevSize - 1) |-> 0]
    /\ readonly_ = FALSE
    /\ io_log = <<>>
    /\ DeviceStarted
    /\ VfsFresh
    /\ mutex_ = NoThread
    /\ pc = [t \in Threads |-> "idle"]
    /\ loc = [t \in Threads |-> NoLoc]
    /\ held = [t \in Threads |-> NoPage]
    /\ ret = [t \in Threads |-> NoRet]
    /\ attr_ = [i \in Inodes |-> FileAttr(0, TRUE)]
    /\ last = "init"
    /\ fuel = MaxLru

LruNext ==
    \/ \E t \in Callers, k \in Keys : FindOrCreate(t, k, "rp")
    \/ \E t \in Callers : EvictStep(t)
    \/ \E t \in Callers : EvictDone(t)
    \/ \E t \in Callers : ReadPageCheck(t)
    \/ \E t \in Callers : ReadPageLock(t)
    \/ \E t \in Callers : ReadPageIo(t)
    \/ \E t \in Callers : Put(t)
    \/ \E t \in Callers : ReleasePage(t)

LruSpec == LruInit /\ [][LruNext]_vars

\* One caller that looks pages up, unpins them, invalidates inodes and moves
\* the ceiling, which stays at 1 or more.
MaxCeil == 5

CeilInit ==
    /\ pg = <<>>
    /\ pages_ = [k \in Keys |-> NoPage]
    /\ lru_list_ = <<>>
    /\ dirty_list_ = <<>>
    /\ max_pages_ \in 1..MaxCap
    /\ current_pages_ = 0
    /\ hits_ = 0 /\ misses_ = 0 /\ evictions_ = 0 /\ writebacks_ = 0
    /\ data_ = [a \in 0..(DevSize - 1) |-> 0]
    /\ readonly_ = FALSE
    /\ io_log = <<>>
    /\ DeviceStarted
    /\ VfsFresh
    /\ mutex_ = NoThread
    /\ pc = [t \in Threads |-> "idle"]
    /\ loc = [t \in Threads |-> NoLoc]
    /\ held = [t \in Threads |-> NoPage]
    /\ ret = [t \in Threads |-> NoRet]
    /\ attr_ = [i \in Inodes |-> FileAttr(0, TRUE)]
    /\ last = "init"
    /\ fuel = MaxCeil

CeilNext ==
    \/ \E t \in Callers, k \in Keys, op \in {"foc", "rp"} : FindOrCreate(t, k, op)
    \/ \E t \in Callers : EvictStep(t)
    \/ \E t \in Callers : EvictDone(t)
    \/ \E t \in Callers : ReadPageCheck(t)
    \/ \E t \in Callers : ReadPageLock(t)
    \/ \E t \in Callers : ReadPageIo(t)
    \/ \E t \in Callers : Put(t)
    \/ \E t \in Callers : ReleasePage(t)
    \/ \E t \in Callers, i \in Inodes : InvalidatePages(t, i)
    \/ \E t \in Callers, n \in 1..MaxCap : SetMaxPages(t, n)

CeilSpec == CeilInit /\ [][CeilNext]_vars

\* Callers of one memory block device, its worker thread and its
\* destructor.  The device starts with every byte 0, or with a content
\* loaded into it.
MaxDev == 2
LastSector == (DevSize - 1) \div sector_size_
Sectors == {0, LastSector, DevSize}
Sizes == {1, PAGE_SIZE}
BioTypes == {"READ", "WRITE", "FLUSH", "DISCARD"}

DevInit ==
    /\ pg = <<>>
    /\ pages_ = [k \in Keys |-> NoPage]
    /\ lru_list_ = <<>>
    /\ dirty_list_ = <<>>
    /\ max_pages_ = MaxCap
    /\ current_pages_ = 0
    /\ hits_ = 0 /\ misses_ = 0 /\ evictions_ = 0 /\ writebacks_ = 0
    /\ \E v \in Values : data_ = [a \in 0..(DevSize - 1) |-> v]
    /\ readonly_ \in BOOLEAN
    /\ io_log = <<>>
    /\ DeviceStarted
    /\ VfsFresh
    /\ mutex_ = NoThread
    /\ pc = [t \in Threads |-> "idle"]
    /\ loc = [t \in Threads |-> NoLoc]
    /\ held = [t \in Threads |-> NoPage]
    /\ ret = [t \in Threads |-> NoRet]
    /\ attr_ = [i \in Inodes |-> FileAttr(0, TRUE)]
    /\ last = "init"
    /\ fuel = MaxDev

DevNext ==
    \/ \E t \in Callers, sec \in Sectors, n \in Sizes : DevRead(t, sec, n)
    \/ \E t \in Callers, sec \in Sectors, n \in Sizes, v \in 1..MaxVal :
          DevWrite(t, sec, n, v)
    \/ \E t \in Callers, sec \in Sectors, n \in Sizes : DevTrim(t, sec, n)
    \/ \E t \in Callers, ty \in BioTypes, sec \in Sectors, n \in Sizes,
          v \in 1..MaxVal : SubmitBio(t, ty, sec, n, v)
    \/ IoThreadWake
    \/ IoThreadProcess
    \/ IoThreadDrain
    \/ DtorStop
    \/ DtorJoin

DevSpec == DevInit /\ [][DevNext]_vars

\* One caller reading and writing a memory block device whose bytes differ
\* from one another, at sectors inside the device, at its end, beyond it,
\* and at a sector whose byte offset does not fit the machine word.
MaxRw == 2
WrapSector == (Word + sector_size_ - 1) \div sector_size_
RwSectors == {0, LastSector, DevSize, WrapSector}
RwSizes == {1, PAGE_SIZE + 1}

RwInit ==
    /\ pg = <<>>
    /\ pages_ = [k \in Keys |-> NoPage]
    /\ lru_list_ = <<>>
    /\ dirty_list_ = <<>>
    /\ max_pages_ = MaxCap
    /\ current_pages_ = 0
    /\ hits_ = 0 /\ misses_ = 0 /\ evictions_ = 0 /\ writebacks_ = 0
    /\ \E v \in Values :
          data_ = [a \in 0..(DevSize - 1) |-> (a + v) % (MaxVal + 1)]
    /\ readonly_ \in BOOLEAN
    /\ io_log = <<>>
    /\ DeviceStarted
    /\ VfsFresh
    /\ mutex_ = NoThread
    /\ pc = [t \in Threads |-> "idle"]
    /\ loc = [t \in Threads |-> NoLoc]
    /\ held = [t \in Threads |-> NoPage]
    /\ ret = [t \in Threads |-> NoRet]
    /\ attr_ = [i \in Inodes |-> FileAttr(0, TRUE)]
    /\ last = "init"
    /\ fuel = MaxRw

RwNext ==
    \/ \E t \in Callers, sec \in RwSectors, n \in RwSizes : DevRead(t, sec, n)
    \/ \E t \in Callers, sec \in RwSectors, n \in RwSizes, v \in Values :
          DevWrite(t, sec, n, v)
    \/ \E t \in Callers, sec \in RwSectors, n \in RwSizes : DevTrim(t, sec, n)

RwSpec == RwInit /\ [][RwNext]_vars

\* One caller that writes, reads and truncates one file through its inode
\* and pins and dirties pages of it through the cache.  The file starts
\* empty or FileEnd bytes long, writable or not.
MaxTrunc == 3
TruncInode == "ino1"

TruncInit ==
    /\ pg = <<>>
    /\ pages_ = [k \in Keys |-> NoPage]
    /\ lru_list_ = <<>>
    /\ dirty_list_ = <<>>
    /\ max_pages_ = MaxCap
    /\ current_pages_ = 0
    /\ hits_ = 0 /\ misses_ = 0 /\ evictions_ = 0 /\ writebacks_ = 0
    /\ data_ = [a \in 0..(DevSize - 1) |-> 0]
    /\ readonly_ = FALSE
    /\ io_log = <<>>
    /\ DeviceStarted
    /\ VfsFresh
    /\ mutex_ = NoThread
    /\ pc = [t \in Threads |-> "idle"]
    /\ loc = [t \in Threads |-> NoLoc]
    /\ held = [t \in Threads |-> NoPage]
    /\ ret = [t \in Threads |-> NoRet]
    /\ \E s \in {0, FileEnd}, w \in BOOLEAN :
          attr_ = [i \in Inodes |-> FileAttr(s, w)]
    /\ last = "init"
    /\ fuel = MaxTrunc

TruncNext ==
    \/ \E t \in Callers, pos \in 0..(FileEnd - 1), d \in Buffers :
          pos + Len(d) <= FileEnd /\ InodeWrite(t, TruncInode, pos, d)
    \/ \E t \in Callers, pos \in 0..(FileEnd - 1), n \in 1..MaxLen :
          pos + n <= FileEnd /\ InodeRead(t, TruncInode, pos, n)
    \/ \E t \in Callers, n \in 0..FileEnd : InodeTruncate(t, TruncInode, n)
    \/ \E t \in Callers, o \in Offsets :
          FindOrCreate(t, [inode |-> TruncInode, offset |-> o], "foc")
    \/ \E t \in Callers, v \in 1..MaxVal : MarkDirty(t, v)

TruncSpec == TruncInit /\ [][TruncNext]_vars

\* Two threads making directory calls on two inodes, each a directory or
\* not, writable or not.  The two inodes may belong to two superblocks and
\* then may carry the same inode number.
MaxDir == 2

DirInit ==
    /\ pg = <<>>
    /\ pages_ = [k \in Keys |-> NoPage]
    /\ lru_list_ = <<>>
    /\ dirty_list_ = <<>>
    /\ max_pages_ = MaxCap
    /\ current_pages_ = 0
    /\ hits_ = 0 /\ misses_ = 0 /\ evictions_ = 0 /\ writebacks_ = 0
    /\ data_ = [a \in 0..(DevSize - 1) |-> 0]
    /\ readonly_ = FALSE
    /\ io_log = <<>>
    /\ DeviceStarted
    /\ imutex_ = [i \in Inodes |-> NoThread]
    /\ ino_ \in [Inodes -> InoNums]
    /\ ops_calls = <<>>
    /\ inode_cache_ = [n \in InoNums |-> "none"]
    /\ inode_cache_mutex_ = NoThread
    /\ pos_ = 0
    /\ file_inode_ = "ino1"
    /\ dentries = [p \in TreePaths |-> "dir"]
    /\ files_ = [i \in Fds |-> "none"]
    /\ mutex_ = NoThread
    /\ pc = [t \in Threads |-> "idle"]
    /\ loc = [t \in Threads |-> NoLoc]
    /\ held = [t \in Threads |-> NoPage]
    /\ ret = [t \in Threads |-> NoRet]
    /\ attr_ \in [Inodes -> {[FileAttr(0, w) EXCEPT !.is_dir = d] :
                                w \in BOOLEAN, d \in BOOLEAN}]
    /\ last = "init"
    /\ fuel = MaxDir

DirNext ==
    \/ \E t \in Threads, op \in DirOps, i \in Inodes, ok \in BOOLEAN :
          DirOp(t, op, i, ok)
    \/ \E t \in Threads, d \in Inodes, nd \in Inodes : RenameStart(t, d, nd)
    \/ \E t \in Threads : RenameLock(t)
    \/ \E t \in Threads, ok \in BOOLEAN : RenameBody(t, ok)

DirSpec == DirInit /\ [][DirNext]_vars

\* Two threads calling get_inode, cache_inode and evict_inode on one
\* superblock whose operation table is set (Ext4FileSystem::mount).
MaxSb == 3

SbInit ==
    /\ pg = <<>>
    /\ pages_ = [k \in Keys |-> NoPage]
    /\ lru_list_ = <<>>
    /\ dirty_list_ = <<>>
    /\ max_pages_ = MaxCap
    /\ current_pages_ = 0
    /\ hits_ = 0 /\ misses_ = 0 /\ evictions_ = 0 /\ writebacks_ = 0
    /\ data_ = [a \in 0..(DevSize - 1) |-> 0]
    /\ readonly_ = FALSE
    /\ io_log = <<>>
    /\ DeviceStarted
    /\ VfsFresh
    /\ mutex_ = NoThread
    /\ pc = [t \in Threads |-> "idle"]
    /\ loc = [t \in Threads |-> NoLoc]
    /\ held = [t \in Threads |-> NoPage]
    /\ ret = [t \in Threads |-> NoRet]
    /\ attr_ = [i \in Inodes |-> FileAttr(0, TRUE)]
    /\ last = "init"
    /\ fuel = MaxSb

SbNext ==
    \/ \E t \in Threads, n \in InoNums : GetInodeLock(t, n)
    \/ \E t \in Threads, ok \in BOOLEAN : GetInodeFind(t, ok)
    \/ \E t \in Threads : GetInodeCache(t)
    \/ \E t \in Threads, n \in InoNums : CacheInode(t, n)
    \/ \E t \in Threads, n \in InoNums : EvictInode(t, n)
    \/ \E n \in InoNums : DropInode(n)

SbSpec == SbInit /\ [][SbNext]_vars

\* Path lookups on a tree that has /a and /a/b or not, and seeks on one
\* open file whose inode is truncated in between.
MaxVfs == 2
LookupPaths == {"/a", "/a/b", "/a/b/.."}
Whences == {0, 1, 2, 3}
SeekOffsets == {0, 1, Word - 1}

VfsInit ==
    /\ pg = <<>>
    /\ pages_ = [k \in Keys |-> NoPage]
    /\ lru_list_ = <<>>
    /\ dirty_list_ = <<>>
    /\ max_pages_ = MaxCap
    /\ current_pages_ = 0
    /\ hits_ = 0 /\ misses_ = 0 /\ evictions_ = 0 /\ writebacks_ = 0
    /\ data_ = [a \in 0..(DevSize - 1) |-> 0]
    /\ readonly_ = FALSE
    /\ io_log = <<>>
    /\ DeviceStarted
    /\ imutex_ = [i \in Inodes |-> NoThread]
    /\ ino_ = [i \in Inodes |-> IF i = "ino1" THEN 1 ELSE 2]
    /\ ops_calls = <<>>
    /\ inode_cache_ = [n \in InoNums |-> "none"]
    /\ inode_cache_mutex_ = NoThread
    /\ pos_ = 0
    /\ file_inode_ \in {"ino1", "none"}
    /\ dentries \in {[p \in TreePaths |-> IF p = "/a" THEN a ELSE b] :
                       a \in {"dir"}, b \in {"dir", "file", "none"}}
                     \cup {[p \in TreePaths |-> "none"]}
    /\ files_ = [i \in Fds |-> "none"]
    /\ mutex_ = NoThread
    /\ pc = [t \in Threads |-> "idle"]
    /\ loc = [t \in Threads |-> NoLoc]
    /\ held = [t \in Threads |-> NoPage]
    /\ ret = [t \in Threads |-> NoRet]
    /\ \E s \in {0, FileEnd} :
          attr_ = [i \in Inodes |-> FileAttr(s, TRUE)]
    /\ last = "init"
    /\ fuel = MaxVfs

VfsNext ==
    \/ \E t \in Threads, p \in LookupPaths : VfsLookup(t, p)
    \/ \E t \in Threads, o \in SeekOffsets, w \in Whences : FileSeek(t, o, w)
    \/ \E t \in Threads, o \in SeekOffsets, crash \in BOOLEAN,
           s \in {0, Word - 1} : FileSeekNull(t, o, crash, s)
    \/ \E t \in Threads, n \in {0, FileEnd} : InodeTruncate(t, "ino1", n)

VfsSpec == VfsInit /\ [][VfsNext]_vars

\* Two threads that look pages up, dirty them, flush them and drop them,
\* on a cache small enough for lookups to evict.
MaxDirty == 3

DirtyInit ==
    /\ pg = <<>>
    /\ pages_ = [k \in Keys |-> NoPage]
    /\ lru_list_ = <<>>
    /\ dirty_list_ = <<>>
    /\ max_pages_ = 1
    /\ current_pages_ = 0
    /\ hits_ = 0 /\ misses_ = 0 /\ evictions_ = 0 /\ writebacks_ = 0
    /\ data_ = [a \in 0..(DevSize - 1) |-> 0]
    /\ readonly_ = FALSE
    /\ io_log = <<>>
    /\ DeviceStarted
    /\ VfsFresh
    /\ mutex_ = NoThread
    /\ pc = [t \in Threads |-> "idle"]
    /\ loc = [t \in Threads |-> NoLoc]
    /\ held = [t \in Threads |-> NoPage]
    /\ ret = [t \in Threads |-> NoRet]
    /\ attr_ = [i \in Inodes |-> FileAttr(0, TRUE)]
    /\ last = "init"
    /\ fuel = MaxDirty

DirtyNext ==
    \/ \E t \in Threads, k \in Keys : FindOrCreate(t, k, "foc")
    \/ \E t \in Threads : EvictStep(t)
    \/ \E t \in Threads : EvictDone(t)
    \/ \E t \in Threads : MarkDirty(t, MaxVal)
    \/ \E t \in Threads : WritePage(t)
    \/ \E t \in Threads : SyncStart(t, "all", "sync")
    \/ \E t \in Threads : SyncLock(t)
    \/ \E t \in Threads : SyncStep(t)
    \/ \E t \in Threads : SyncReturn(t)
    \/ \E t \in Threads, i \in Inodes : InvalidatePages(t, i)
    \/ \E t \in Threads : Put(t)
    \/ \E t \in Threads : ReleasePage(t)

DirtySpec == DirtyInit /\ [][DirtyNext]_vars

\* Two threads that lock pages, directly and inside read_page and
\* sync_pages, and dirty them; the cache has room for every key used.
MaxLock == 4
LockKeys == {k \in Keys : k.inode = "ino1"}

LockInit ==
    /\ pg = <<>>
    /\ pages_ = [k \in Keys |-> NoPage]
    /\ lru_list_ = <<>>
    /\ dirty_list_ = <<>>
    /\ max_pages_ = NumOffsets + 1
    /\ current_pages_ = 0
    /\ hits_ = 0 /\ misses_ = 0 /\ evictions_ = 0 /\ writebacks_ = 0
    /\ data_ = [a \in 0..(DevSize - 1) |-> 0]
    /\ readonly_ = FALSE
    /\ io_log = <<>>
    /\ DeviceStarted
    /\ VfsFresh
    /\ mutex_ = NoThread
    /\ pc = [t \in Threads |-> "idle"]
    /\ loc = [t \in Threads |-> NoLoc]
    /\ held = [t \in Threads |-> NoPage]
    /\ ret = [t \in Threads |-> NoRet]
    /\ attr_ = [i \in Inodes |-> FileAttr(0, TRUE)]
    /\ last = "init"
    /\ fuel = MaxLock

LockNext ==
    \/ \E t \in Threads, k \in LockKeys, op \in {"foc", "rp"} :
          FindOrCreate(t, k, op)
    \/ \E t \in Threads : ReadPageCheck(t)
    \/ \E t \in Threads : ReadPageLock(t)
    \/ \E t \in Threads : ReadPageIo(t)
    \/ \E t \in Threads : MarkDirty(t, MaxVal)
    \/ \E t \in Threads : SyncStart(t, "all", "sync")
    \/ \E t \in Threads : SyncLock(t)
    \/ \E t \in Threads : SyncStep(t)
    \/ \E t \in Threads : SyncReturn(t)
    \/ \E t \in Threads : PageLockCall(t)
    \/ \E t \in Threads : PageTryLock(t)
    \/ \E t \in Threads : PageUnlockCall(t)

LockSpec == LockInit /\ [][LockNext]_vars

\* Two threads calling one descriptor table with two open files, the null
\* pointer, and descriptors inside and outside the table.
MaxFd == 4
OpenFiles == {"f1", "f2"}
FdArgs == -1..FdSize

FdInit ==
    /\ pg = <<>>
    /\ pages_ = [k \in Keys |-> NoPage]
    /\ lru_list_ = <<>>
    /\ dirty_list_ = <<>>
    /\ max_pages_ = MaxCap
    /\ current_pages_ = 0
    /\ hits_ = 0 /\ misses_ = 0 /\ evictions_ = 0 /\ writebacks_ = 0
    /\ data_ = [a \in 0..(DevSize - 1) |-> 0]
    /\ readonly_ = FALSE
    /\ io_log = <<>>
    /\ DeviceStarted
    /\ VfsFresh
    /\ mutex_ = NoThread
    /\ pc = [t \in Threads |-> "idle"]
    /\ loc = [t \in Threads |-> NoLoc]
    /\ held = [t \in Threads |-> NoPage]
    /\ ret = [t \in Threads |-> NoRet]
    /\ attr_ = [i \in Inodes |-> FileAttr(0, TRUE)]
    /\ last = "init"
    /\ fuel = MaxFd

FdNext ==
    \/ \E t \in Threads, f \in OpenFiles \cup {"none"} : AllocFd(t, f)
    \/ \E t \in Threads, fd \in FdArgs : FreeFd(t, fd)
    \/ \E t \in Threads, fd \in FdArgs : DupFd(t, fd)
    \/ \E t \in Threads, fd \in FdArgs, nfd \in FdArgs : Dup2Fd(t, fd, nfd)

FdSpec == FdInit /\ [][FdNext]_vars

\* ================================================================ claims
WritesSince(n) ==
    {j \in (n + 1)..Len(io_log) : io_log[j].op = "write"}
FailedWritesSince(n) ==
    {j \in WritesSince(n) : ~io_log[j].ok}
SyncReturned(t) == last = "sync_return" /\ ret[t].op = "sync_pages"

\* C1: when put() has dropped a cached page's reference count to zero and
\* release_page has run, the page is still in the index under its key,
\* with the same state and the same buffer.
C1_PutKeepsPage ==
    [][\A t \in Threads :
         LET p == loc[t].page
         IN (/\ pc[t] = "release" /\ pc'[t] = "idle"
             /\ pg[p].ref_count_ = 0
             /\ pages_[PageKeyOf(Cur, p)] = p)
            => /\ pages_'[PageKeyOf(Cur, p)] = p
               /\ pg'[p].state_ = pg[p].state_
               /\ pg'[p].buf = pg[p].buf]_vars

\* C2: a successful Inode::write of N > 0 bytes at P leaves the file size
\* at max(S, P + N), and an Inode::read of N bytes at P made right after it
\* returns the N bytes written.
C2_ReadBackAfterWrite ==
    \A t \in Threads :
        /\ (last = "Inode::write" /\ ret[t].op = "Inode::write" /\ ret[t].ok)
           => attr_[ret[t].inode].size =
                 IF ret[t].pos + Len(ret[t].bytes) > ret[t].size0
                 THEN ret[t].pos + Len(ret[t].bytes) ELSE ret[t].size0
        /\ (/\ last = "Inode::read" /\ ret[t].op = "Inode::read"
            /\ ret[t].prev.op = "Inode::write" /\ ret[t].prev.ok
            /\ ret[t].prev.inode = ret[t].inode
            /\ ret[t].prev.pos = ret[t].pos
            /\ Len(ret[t].prev.bytes) = ret[t].n)
           => ret[t].ok /\ ret[t].bytes = ret[t].prev.bytes

\* C3: however many threads are inside read_page for a key that was not
\* cached, the device is asked once for the page they are given, and they
\* are all given that one page.
C3_OneDeviceRead ==
    \A p \in 1..Len(pg) :
        Cardinality({j \in DOMAIN io_log :
                       io_log[j].op = "read" /\ io_log[j].buf = p}) <= 1

\* C4: when sync_pages returns, the device has been asked, since the call
\* began, for exactly one write per page that was Dirty (and in the
\* caller's scope) at the call, each of that page's buffer at sector
\* offset / sector_size, and for no other write.
C4_SyncWritesEachDirty ==
    \A t \in Threads :
        SyncReturned(t) =>
            /\ \A p \in ret[t].dirty0 :
                 Cardinality({j \in WritesSince(ret[t].io0) :
                                /\ io_log[j].buf = p
                                /\ io_log[j].sector =
                                      pg[p].offset_ \div sector_size_}) = 1
            /\ Cardinality(WritesSince(ret[t].io0)) = Cardinality(ret[t].dirty0)

\* C5: when sync_pages returns to a caller that ran alone, every page that
\* was Dirty (and in the call's scope) when the call began is Uptodate or
\* Error; none is Dirty, Locked or in Writeback.
C5_SyncLeavesNoDirty ==
    \A t \in Threads :
        SyncReturned(t) =>
            \A p \in ret[t].dirty0 : pg[p].state_ \in {"UPTODATE", "ERROR"}

C5_Witness ==
    \E t \in Threads : SyncReturned(t) /\ ret[t].dirty0 # {}

\* C6: a sync_pages call made right after one that ran to its last
\* statement, with no call in between, asks the device for no write and
\* leaves writebacks_ as it was.
C6_SecondSyncNoop ==
    \A t \in Threads :
        (SyncReturned(t) /\ ret[t].chained) =>
            /\ WritesSince(ret[t].io0) = {}
            /\ writebacks_ = ret[t].wb0

C6_Witness ==
    \E t \in Threads :
        SyncReturned(t) /\ ret[t].chained /\ dirty_list_ # <<>>

\* C7: the result of sync_pages has is_ok() true exactly when none of the
\* writes the call issued failed (also when it issued none).
C7_SyncOkUnlessWriteFailed ==
    \A t \in Threads :
        SyncReturned(t) => (ret[t].ok <=> FailedWritesSince(ret[t].io0) = {})

\* C8: when Inode::sync returns and no write of the flush failed,
\* write_inode has been called exactly once since the call began, after
\* every write of the flush.
C8_InodeSyncWritesInode ==
    \A t \in Threads :
        (/\ last = "isync_return" /\ ret[t].op = "Inode::sync"
         /\ FailedWritesSince(ret[t].io0) = {})
        => /\ Cardinality({j \in (ret[t].io0 + 1)..Len(io_log) :
                             io_log[j].op = "write_inode"}) = 1
           /\ io_log[Len(io_log)].op = "write_inode"

\* C9: a step of evict_pages that evicts never takes out of the index a
\* page whose reference count exceeds 1.
C9_EvictSparesPinned ==
    [][\A k \in Keys :
         (/\ pc' # pc \/ loc' # loc
          /\ last' = "evict"
          /\ pages_[k] # NoPage /\ pages_'[k] = NoPage)
         => ~ULess(1, pg[pages_[k]].ref_count_)]_vars

\* C10: a thread that has entered evict_pages (from find_or_create_page at
\* capacity or from set_max_pages) leaves it and releases the cache mutex.
C10_EvictTerminates ==
    \A t \in Threads : (pc[t] = "evict") ~> (pc[t] # "evict" /\ mutex_ # t)

\* the page evict_pages looks at next: the tail of the LRU list
Victim == lru_list_[Len(lru_list_)]
EvictsNow == (pc' # pc \/ loc' # loc) /\ last' = "evict"

C12_LruEvictsOldest ==
    \A t \in Callers :
        (/\ pc[t] = "idle" /\ held[t] = NoPage
         /\ max_pages_ = 2 /\ fuel = MaxLru - 6
         /\ Len(pg) = 3 /\ hits_ = 0 /\ misses_ = 3
         /\ Cardinality({PageKeyOf(Cur, p) : p \in 1..3}) = 3)
        => /\ evictions_ = 1
           /\ pages_[PageKeyOf(Cur, 1)] = NoPage
           /\ pages_[PageKeyOf(Cur, 2)] = 2
           /\ pages_[PageKeyOf(Cur, 3)] = 3

\* the keys that have been accessed: every access to a key not cached makes
\* a page for it
KeysAccessed == {PageKeyOf(Cur, p) : p \in 1..Len(pg)}
DeviceReads == {j \in DOMAIN io_log : io_log[j].op = "read"}

\* C13: when every call so far was a read_page followed by a put of the
\* page it returned, and the keys accessed are no more than max_pages_, only
\* the first access to each key was a miss and only it read the device:
\* misses_ and the number of device reads both equal the number of keys
\* accessed, every other access being a hit.
C13_RepeatedAccessHits ==
    \A t \in Callers :
        (/\ pc[t] = "idle" /\ held[t] = NoPage
         /\ 2 * (hits_ + misses_) = MaxLru - fuel
         /\ Cardinality(KeysAccessed) <= max_pages_)
        => /\ misses_ = Cardinality(KeysAccessed)
           /\ Cardinality(DeviceReads) = Cardinality(KeysAccessed)

\* the keys the index holds a page for
Indexed == {k \in Keys : pages_[k] # NoPage}

\* C14: whenever no call is in progress, current_pages_ (what
\* get_page_count() returns) is the number of pages in the index; it has
\* not wrapped below zero.
C14_PageCountIsIndexSize ==
    (\A t \in Threads : pc[t] = "idle")
    => current_pages_ = Cardinality(Indexed)

\* C15: with a ceiling of 1 or more, when find_or_create_page, read_page
\* or set_max_pages has just returned, the index holds at most max_pages_
\* pages.
C15_IndexWithinCeiling ==
    \A t \in Callers :
        (/\ pc[t] = "idle"
         /\ ret[t].op \in {"find_or_create_page", "read_page", "set_max_pages"}
         /\ max_pages_ >= 1)
        => Cardinality(Indexed) <= max_pages_

\* C16: when read_page returns for a key whose cached page was Dirty at
\* the call, it returns that page, still Dirty and with the buffer it had,
\* and the device has not been read since the call began.
C16_ReadKeepsDirtyPage ==
    \A t \in Callers :
        (/\ pc[t] = "idle" /\ ret[t].op = "read_page"
         /\ last \in {"rp_check", "rp_io"}
         /\ ret[t].dirty0 # {})
        => /\ ret[t].ok /\ ret[t].page \in ret[t].dirty0
           /\ \A p \in ret[t].dirty0 :
                 /\ pg[p].state_ = "DIRTY"
                 /\ pg[p].buf = ret[t].buf0
           /\ \A j \in DeviceReads : j <= ret[t].io0

\* C17: a call of invalidate_pages(inode) asks the device for a write of
\* every page of that inode that is indexed and Dirty when the call is
\* made, and leaves no page of that inode in the index.
C17_InvalidateWritesDirty ==
    [][\A t \in Callers :
         (/\ fuel' # fuel /\ last' = "invalidate_pages"
          /\ ret'[t].op = "invalidate_pages")
         => /\ \A k \in Keys : k.inode = ret'[t].inode => pages_'[k] = NoPage
            /\ \A k \in Keys :
                 (/\ k.inode = ret'[t].inode /\ pages_[k] # NoPage
                  /\ pg[pages_[k]].state_ = "DIRTY")
                 => \E j \in (Len(io_log) + 1)..Len(io_log') :
                       /\ io_log'[j].op = "write"
                       /\ io_log'[j].buf = pages_[k]]_vars

\* C18: the completion callbacks of a memory block device are invoked in
\* the order of the submit_bio calls, the j-th callback being that of the
\* j-th BIO submitted, and each is given the code the synchronous read,
\* write, flush or trim returns for that BIO (SUCCESS when it succeeds).
C18_CallbacksInSubmitOrder ==
    \A j \in DOMAIN callbacks :
        /\ callbacks[j].id = j
        /\ callbacks[j].code =
              CASE callbacks[j].type = "READ" -> ReadCode(callbacks[j].sector)
                [] callbacks[j].type = "WRITE" ->
                      WriteCode(Cur, callbacks[j].sector)
                [] callbacks[j].type = "FLUSH" -> "SUCCESS"
                [] OTHER -> TrimCode(Cur, callbacks[j].sector)

C18_Witness ==
    /\ Len(callbacks) >= 2
    /\ callbacks[1].code # "SUCCESS" /\ callbacks[2].code = "SUCCESS"
    /\ callbacks[1].type # callbacks[2].type

\* C19: when the destructor of a memory block device has returned, every
\* BIO submitted before it started has had its callback invoked exactly
\* once.
C19_ShutdownDrainsQueue ==
    dtor = "returned"
    => \A id \in 1..submitted :
          Cardinality({j \in DOMAIN callbacks : callbacks[j].id = id}) = 1

\* C20: on a device constructed read-only no step changes a backing byte,
\* every write and trim call returns FS_EROFS whatever the sector and the
\* length, and every WRITE BIO completes with FS_EROFS.
C20_ReadOnlyRefusesWrites ==
    [][readonly_ =>
         /\ data_' = data_
         /\ \A t \in Callers :
               (/\ fuel' # fuel /\ last' = ret'[t].op
                /\ ret'[t].op \in {"MemoryBlockDevice::write",
                                   "MemoryBlockDevice::trim"})
               => ret'[t].code = "FS_EROFS"
         /\ (/\ Len(callbacks') > Len(callbacks)
             /\ callbacks'[Len(callbacks')].type = "WRITE")
            => callbacks'[Len(callbacks')].code = "FS_EROFS"]_vars

C20_Witness ==
    /\ readonly_ /\ \E a \in 0..(DevSize - 1) : data_[a] # 0
    /\ \E t \in Callers :
          /\ last = "MemoryBlockDevice::write" /\ ret[t].op = last
          /\ ret[t].pos = DevSize /\ ret[t].code = "FS_EROFS"
    /\ \E j \in DOMAIN callbacks :
          callbacks[j].type = "WRITE" /\ callbacks[j].code = "FS_EROFS"

\* a device call that has just returned to t
DevReturned(t, op) == last = op /\ ret[t].op = op /\ pc[t] = "idle"

\* C21: MemoryBlockDevice::read(sector, buf, len) returns FS_EINVAL when
\* sector * sector_size is at or beyond the device size; otherwise it
\* returns min(len, size - sector * sector_size) bytes, which are the
\* device bytes from sector * sector_size on.
C21_ReadClampsNoWrap ==
    \A t \in Callers :
        DevReturned(t, "MemoryBlockDevice::read") =>
            IF ret[t].pos * sector_size_ >= DevSize
            THEN ret[t].code = "FS_EINVAL"
            ELSE /\ ret[t].code = "SUCCESS"
                 /\ ret[t].n = Min(ret[t].size0,
                                   DevSize - ret[t].pos * sector_size_)
                 /\ Len(ret[t].bytes) = ret[t].n
                 /\ \A j \in 1..ret[t].n :
                       ret[t].bytes[j] =
                          data_[ret[t].pos * sector_size_ + j - 1]

\* C22: a write(s, data, n) that succeeds with result n changes no device
\* byte outside [s * sector_size, s * sector_size + n), and a read(s, buf,
\* n) made right after it returns the n bytes of data.
C22_WriteThenRead ==
    [][\A t \in Callers :
         /\ (/\ fuel' # fuel /\ last' = "MemoryBlockDevice::write"
             /\ ret'[t].op = last' /\ ret'[t].ok
             /\ ret'[t].n = ret'[t].size0)
            => \A a \in 0..(DevSize - 1) :
                  (a < ret'[t].pos * sector_size_
                   \/ a >= ret'[t].pos * sector_size_ + ret'[t].n)
                  => data_'[a] = data_[a]
         /\ (/\ fuel' # fuel /\ last' = "MemoryBlockDevice::read"
             /\ ret'[t].op = last'
             /\ ret[t].op = "MemoryBlockDevice::write" /\ ret[t].ok
             /\ ret[t].n = ret[t].size0
             /\ ret'[t].pos = ret[t].pos /\ ret'[t].size0 = ret[t].size0)
            => /\ ret'[t].ok /\ ret'[t].n = ret[t].n
               /\ ret'[t].bytes = ret[t].bytes]_vars

C24_TruncateKeepsLowPages ==
    [][\A t \in Callers, k \in Keys :
         (/\ fuel' # fuel /\ last' = "Inode::truncate"
          /\ ret'[t].op = "Inode::truncate"
          /\ ret'[t].pos < ret'[t].size0
          /\ k.inode = ret'[t].inode /\ pages_[k] # NoPage)
         => IF k.offset >= ret'[t].pos
            THEN pages_'[k] = NoPage
            ELSE /\ pages_'[k] = pages_[k]
                 /\ pg'[pages_[k]].state_ = pg[pages_[k]].state_
                 /\ pg'[pages_[k]].buf = pg[pages_[k]].buf]_vars

C26_NotDirRefused ==
    [][\A t \in Threads :
         (fuel' # fuel /\ ret'[t].call = fuel)
         => /\ (/\ ret'[t].op \in DirOps
                /\ ~attr_[ret'[t].inode].is_dir)
               => /\ ret'[t].code = "FS_ENOTDIR"
                  /\ ops_calls' = ops_calls /\ attr_' = attr_
            /\ (/\ ret'[t].op = "rename"
                /\ \/ ~attr_[ret'[t].inode].is_dir
                   \/ ~attr_[ret'[t].new_dir].is_dir)
               => /\ ret'[t].code = "FS_ENOTDIR"
                  /\ ops_calls' = ops_calls /\ attr_' = attr_]_vars

C26_Witness ==
    /\ \E t \in Threads :
          /\ ret[t].op = "rename" /\ ret[t].code = "FS_ENOTDIR"
          /\ attr_[ret[t].inode].is_dir
    /\ \E t \in Threads :
          /\ ret[t].op = "mkdir" /\ ret[t].code = "FS_ENOTDIR"
          /\ attr_[ret[t].inode].writable
    /\ ops_calls = <<>>

\* C27: a thread that is about to call the operation table's rename holds
\* the mutex of both directories, and two threads inside rename never wait
\* for each other's mutex.
C27_RenameHoldsBothLocks ==
    /\ \A t \in Threads :
          pc[t] \in {"rn_lock", "rn_body"}
          => attr_[loc[t].key.inode].is_dir /\ attr_[loc[t].new_dir].is_dir
    /\ \A t \in Threads :
          pc[t] = "rn_body"
          => /\ imutex_[loc[t].key.inode] = t
             /\ imutex_[loc[t].new_dir] = t
    /\ ~ \E t \in Threads, u \in Threads :
            /\ t # u /\ pc[t] = "rn_lock" /\ pc[u] = "rn_lock"
            /\ imutex_[Head(loc[t].locks)] = u
            /\ imutex_[Head(loc[u].locks)] = t

\* C28: no thread inside get_inode comes to lock the inode-cache mutex
\* while it holds it, and a get_inode that found no live entry and read the
\* inode returns it with an entry for its number in the cache.
C28_GetInodeCaches ==
    /\ [](\A t \in Threads :
            ~(pc[t] = "gi_cache" /\ inode_cache_mutex_ = t))
    /\ [][\A t \in Threads :
            (/\ pc[t] \in {"gi_find", "gi_cache"} /\ pc'[t] = "idle"
             /\ ret'[t].ok /\ ret'[t].n = 1)
            => inode_cache_'[ret'[t].ino] = "live"]_vars

\* C29: a lookup of '/a/b/..' gives the dentry a lookup of '/a' gives when
\* b is a directory, fails with FS_ENOTDIR when b is a regular file, and
\* fails with FS_ENOENT when a or b is missing.
C29_LookupDotDot ==
    \A t \in Threads :
      (ret[t].op = "lookup" /\ ret[t].path = "/a/b/..")
      => IF dentries["/a"] = "none" \/ dentries["/a/b"] = "none"
         THEN ret[t].code = "FS_ENOENT"
         ELSE IF dentries["/a/b"] = "file"
         THEN ret[t].code = "FS_ENOTDIR"
         ELSE /\ ret[t].ok
              /\ \A u \in Threads :
                    (ret[u].op = "lookup" /\ ret[u].path = "/a")
                    => ret[u].ok /\ ret[u].dentry = ret[t].dentry

\* C30: after seek(o, whence) the position is o for whence 0, the old
\* position + o for whence 1 and the inode's size + o for whence 2 (sums in
\* offset_t arithmetic), and the call returns it; for any other whence the
\* call returns FS_EINVAL and the position is the old one.
C30_SeekSetsPosition ==
    \A t \in Threads :
      (last = "seek" /\ ret[t].op = "seek" /\ ret[t].call = fuel + 1)
      => IF ret[t].whence = 0
         THEN ret[t].ok /\ pos_ = ret[t].offset /\ ret[t].pos = pos_
         ELSE IF ret[t].whence = 1
         THEN /\ ret[t].ok /\ ret[t].pos = pos_
              /\ pos_ = (ret[t].n + ret[t].offset) % Word
         ELSE IF ret[t].whence = 2
         THEN ret[t].inode # "none"
              => /\ ret[t].ok /\ ret[t].pos = pos_
                 /\ ret[t].size0 = attr_[ret[t].inode].size
                 /\ pos_ = (ret[t].size0 + ret[t].offset) % Word
         ELSE /\ ret[t].code = "FS_EINVAL" /\ ~ret[t].ok
              /\ pos_ = ret[t].n

C30_Witness ==
    \E t \in Threads :
      /\ last = "seek" /\ ret[t].op = "seek" /\ ret[t].call = fuel + 1
      /\ ret[t].whence = 1 /\ ret[t].offset = 1 /\ ret[t].n = FileEnd
      /\ pos_ = FileEnd + 1
      /\ \E u \in Threads : ret[u].op = "seek" /\ ret[u].whence = 2

\* C31: every read and write the block device is asked for is asked for by
\* a thread that does not hold the page-cache mutex at that moment.
C31_NoIoUnderMutex ==
    \A j \in DOMAIN io_log :
        io_log[j].op \in {"read", "write"} => ~io_log[j].held

\* C32: the dirty list is changed only by a thread that holds the
\* page-cache mutex: no step changes it while another thread than the one
\* taking the step holds the mutex.
C32_DirtyListUnderMutex ==
    [][(dirty_list_' # dirty_list_ /\ mutex_ # NoThread)
       => \/ pc'[mutex_] # pc[mutex_]
          \/ loc'[mutex_] # loc[mutex_]
          \/ ret'[mutex_] # ret[mutex_]]_vars

\* C33: while the filesystem's rename runs, the thread holds the mutex of
\* the source and of the destination directory, two mutexes when they are
\* two inode objects (whatever their numbers) and one when they are one
\* object; and it takes a mutex before every mutex of a higher inode
\* number.
C33_RenameLocksByObject ==
    /\ [](\A t \in Threads :
            pc[t] = "rn_body"
            => {i \in Inodes : imutex_[i] = t}
                  = {loc[t].key.inode, loc[t].new_dir})
    /\ [][\A t \in Threads :
            (pc[t] = "rn_lock" /\ loc'[t].locks # loc[t].locks)
            => \A i \in Range(loc'[t].locks) :
                  ino_[Head(loc[t].locks)] < ino_[i]]_vars

\* C34: when unlock() returns after a lock() (or a successful try_lock())
\* by the same thread, a page that was Dirty when it was locked is Dirty
\* and in the dirty list, and any other page is Uptodate.
C34_LockUnlockKeepsDirty ==
    [][\A t \in Threads :
         (pc[t] = "locked" /\ pc'[t] = "idle")
         => IF loc[t].page \in loc[t].dirty0
            THEN /\ pg'[loc[t].page].state_ = "DIRTY"
                 /\ loc[t].page \in Range(dirty_list_')
            ELSE pg'[loc[t].page].state_ = "UPTODATE"]_vars

\* the page lock is held by a thread between lock()'s return and its
\* unlock(): inside read_page, inside the loop body of sync_pages, or
\* after a lock() or try_lock() of its own
HoldsPageLock(t, p) ==
    \/ pc[t] \in {"rp_io", "locked"} /\ loc[t].page = p
    \/ pc[t] = "sync_body" /\ Head(loc[t].snap) = p

\* C35: no two threads hold the lock of one page at the same time.
C35_PageLockExclusive ==
    \A p \in 1..Len(pg) : \A t \in Threads, u \in Threads :
        (HoldsPageLock(t, p) /\ HoldsPageLock(u, p)) => t = u

\* the pages the LRU list holds
InLru == Range(lru_list_)

\* C36: whenever the cache mutex is free and no call is in progress, the
\* pages in the LRU list are the pages in the index, the LRU list holds no
\* page twice and no two pages of one key.
C36_LruIsIndex ==
    (mutex_ = NoThread /\ \A t \in Threads : pc[t] = "idle")
    => /\ InLru = {pages_[k] : k \in Indexed}
       /\ Len(lru_list_) = Cardinality(InLru)
       /\ \A p \in InLru, q \in InLru :
             PageKeyOf(Cur, p) = PageKeyOf(Cur, q) => p = q

\* the pages the dirty list holds
InDirty == Range(dirty_list_)

\* C37: whenever no call is in progress, the dirty list holds no page
\* twice, and a page is in it exactly when its state is Dirty or Writeback
\* and it is in the index.
C37_DirtyListIsDirtyPages ==
    (\A t \in Threads : pc[t] = "idle")
    => /\ Len(dirty_list_) = Cardinality(InDirty)
       /\ \A p \in 1..Len(pg) :
             p \in InDirty
             <=> /\ pg[p].state_ \in {"DIRTY", "WRITEBACK"}
                 /\ pages_[PageKeyOf(Cur, p)] = p

\* the device bytes a logged read or write of a page covers
LogBytes(j) ==
    {a \in 0..(DevSize - 1) :
        /\ a >= io_log[j].sector * sector_size_
        /\ a < io_log[j].sector * sector_size_ + PAGE_SIZE}

\* C38: a write of a page of one inode and a read of a page of another
\* inode cover no device byte in common.
C38_InodesDisjointOnDevice ==
    \A j \in DOMAIN io_log, k \in DOMAIN io_log :
        (/\ io_log[j].op = "write" /\ io_log[k].op = "read"
         /\ io_log[j].ok /\ io_log[k].ok
         /\ pg[io_log[j].buf].inode_ # pg[io_log[k].buf].inode_)
        => LogBytes(j) \cap LogBytes(k) = {}

\* C39: a read, and on a writable device a write or a trim, at a sector
\* whose byte offset sector * sector_size (the product of the two numbers,
\* not the machine word) is at or beyond the device size returns FS_EINVAL
\* and changes no device byte.
C39_BeyondDeviceRefused ==
    [][\A t \in Callers :
         (/\ fuel' # fuel /\ ret'[t].op = last'
          /\ \/ last' = "MemoryBlockDevice::read"
             \/ /\ last' \in {"MemoryBlockDevice::write",
                               "MemoryBlockDevice::trim"}
                /\ ~readonly_
          /\ ret'[t].pos * sector_size_ >= DevSize)
         => ret'[t].code = "FS_EINVAL" /\ data_' = data_]_vars

\* the indexes of the table that hold no file
FreeFds == {i \in Fds : files_[i] = "none"}

====
